---- MODULE Spec2Model ----
(***************************************************************************)
(* Limit order book matching engine (OrderBook, PriceLevel, Order, Trade). *)
(*                                                                         *)
(* Every public mutation runs under the exclusive lock of the engine and   *)
(* is one action of Spec.  SpecThreads runs the same calls statement by    *)
(* statement on several threads, with the shared_mutex between them;      *)
(* SpecWalk runs them on one thread, which keeps running once in a call.   *)
(* SpecReads adds the locked market-data reads to Spec.                    *)
(* Orders live in a heap `orders` keyed by the order                       *)
(* id (the shared_ptr target); the level queues and the id index hold      *)
(* references into that heap.  An order that no queue and no index entry   *)
(* references any more is released, as its last shared_ptr goes away; the  *)
(* call that released it reports its final value in `last.released`.       *)
(* Prices are doubles in the source; the model draws them from a small     *)
(* integer range and the value NaN, which the parameter checks let pass    *)
(* and the ladders (std::map) find equal to any key.  Timestamps are       *)
(* advisory and left out.                                                  *)
(*                                                                         *)
(* Unsigned 64-bit fields are kept as integers; a negative value n of      *)
(* total_quantity denotes the wrapped value 2^64 + n, so addition and      *)
(* subtraction and equality are exact for the magnitudes of the model.     *)
(***************************************************************************)
EXTENDS Integers, Sequences, FiniteSets, TLC

\* ---------------------------------------------------------------- bounds
MaxPrice == 3
MaxQty == 2
MaxOrders == 3

Sides == {"BUY", "SELL"}
OrderTypes == {"MARKET", "LIMIT"}

\* A price is a double.  The finite prices of the model are integers; NaN,
\* a value of the type that every comparison is false of, is kept as an
\* integer of its own that no finite price or difference of prices takes.
NaN == -1000

PriceInputs == (-1 .. MaxPrice) \cup {NaN}
QtyInputs == 0 .. MaxQty
IdInputs == 0 .. (MaxOrders + 1)
LevelInputs == 0 .. MaxOrders

\* The threads of SpecThreads, the orders they make between them and the
\* prices they trade at: the finite prices and NaN.  The one thread of
\* SpecWalk makes MaxWalkOrders orders.
MaxThreads == 2
MaxThreadPrice == 2
MaxThreadOrders == 3
MaxWalkOrders == 4
Threads == 1 .. MaxThreads
ThreadPrices == (1 .. MaxThreadPrice) \cup {NaN}
ThreadQtys == 1 .. MaxQty
ThreadIds == 0 .. MaxWalkOrders
ThreadLevels == 0 .. 1

VARIABLES bids, asks, order_map, orders, next_order_id, next_trade_id,
          total_trades, total_volume, trade_log, last,
          mutex, threads, committed

vars == <<bids, asks, order_map, orders, next_order_id, next_trade_id,
          total_trades, total_volume, trade_log, last,
          mutex, threads, committed>>

\* A local variable: v is evaluated once, as at its C++ definition, and F is
\* applied to the value.
WithValue(F(_), v) == CHOOSE r \in {F(x) : x \in {v}} : TRUE

\* ----------------------------------------------------------------- double
is_nan(x) == x = NaN

\* The comparisons and the difference of doubles.
double_lt(a, b) == ~is_nan(a) /\ ~is_nan(b) /\ a < b

double_le(a, b) == ~is_nan(a) /\ ~is_nan(b) /\ a <= b

double_gt(a, b) == ~is_nan(a) /\ ~is_nan(b) /\ a > b

double_ge(a, b) == ~is_nan(a) /\ ~is_nan(b) /\ a >= b

double_sub(a, b) == IF is_nan(a) \/ is_nan(b) THEN NaN ELSE a - b

\* ------------------------------------------------------------------ Order
Min(a, b) == IF a <= b THEN a ELSE b

get_remaining_qty(o) == o.quantity - o.filled_qty

\* The checks of the constructor, in the order they are made.
OrderCtorError(price, qty, type) ==
    IF qty = 0 THEN "invalid_argument"
    ELSE IF double_lt(price, 0) THEN "invalid_argument"
    ELSE IF type = "LIMIT" /\ double_le(price, 0) THEN "invalid_argument"
    ELSE "none"

Order(id, price, qty, side, type) ==
    [order_id |-> id, price |-> price, quantity |-> qty, filled_qty |-> 0,
     side |-> side, type |-> type, status |-> "NEW"]

\* Order::fill: the order after the call and the exception it raised.
\* Mutant of fill: the status after a fill is always PARTIALLY_FILLED.
fill_always_partial(o, qty) ==
    IF qty = 0 THEN [order |-> o, err |-> "none"]
    ELSE IF o.filled_qty + qty > o.quantity
         THEN [order |-> o, err |-> "invalid_argument"]
    ELSE IF o.status \in {"CANCELLED", "FILLED"}
         THEN [order |-> o, err |-> "logic_error"]
    ELSE [order |-> [o EXCEPT !.filled_qty = o.filled_qty + qty,
                              !.status = "PARTIALLY_FILLED"],
          err |-> "none"]

\* Mutant of fill: filled_qty grows and the status stays.
fill_keeps_status(o, qty) ==
    IF qty = 0 THEN [order |-> o, err |-> "none"]
    ELSE IF o.filled_qty + qty > o.quantity
         THEN [order |-> o, err |-> "invalid_argument"]
    ELSE IF o.status \in {"CANCELLED", "FILLED"}
         THEN [order |-> o, err |-> "logic_error"]
    ELSE [order |-> [o EXCEPT !.filled_qty = o.filled_qty + qty], err |-> "none"]

fill(o, qty) ==
    IF qty = 0 THEN [order |-> o, err |-> "none"]
    ELSE IF o.filled_qty + qty > o.quantity
         THEN [order |-> o, err |-> "invalid_argument"]
    ELSE IF o.status \in {"CANCELLED", "FILLED"}
         THEN [order |-> o, err |-> "logic_error"]
    ELSE [order |-> [o EXCEPT !.filled_qty = o.filled_qty + qty,
                              !.status = IF o.filled_qty + qty = o.quantity
                                         THEN "FILLED"
                                         ELSE "PARTIALLY_FILLED"],
          err |-> "none"]

\* Mutant of cancel: the status is set whatever it was.
cancel_any_status(o) == [o EXCEPT !.status = "CANCELLED"]

cancel(o) ==
    IF o.status \in {"NEW", "PARTIALLY_FILLED"}
    THEN [o EXCEPT !.status = "CANCELLED"]
    ELSE o

is_fully_filled(o) == o.filled_qty = o.quantity

\* ------------------------------------------------------------- PriceLevel
PriceLevel(price) == [price |-> price, total_quantity |-> 0, orders |-> <<>>]

PriceLevel_empty(level) == level.orders = <<>>

\* Mutant of PriceLevel_add_order: the order is put at the front of the queue.
PriceLevel_add_order_front(level, heap, ref) ==
    [level EXCEPT !.total_quantity = level.total_quantity
                                       + get_remaining_qty(heap[ref]),
                  !.orders = <<ref>> \o level.orders]

PriceLevel_add_order(level, heap, ref) ==
    [level EXCEPT !.total_quantity = level.total_quantity
                                       + get_remaining_qty(heap[ref]),
                  !.orders = Append(level.orders, ref)]

\* Mutant of remove_scan: the original quantity of the order is subtracted.
RECURSIVE remove_scan_original_quantity(_, _, _, _)
remove_scan_original_quantity(queue, heap, order_id, acc) ==
    IF queue = <<>> THEN acc
    ELSE LET ref == Head(queue)
         IN  WithValue(LAMBDA acc1 :
                     remove_scan_original_quantity(Tail(queue), heap, order_id, acc1),
                 IF heap[ref].order_id = order_id
                 THEN [acc EXCEPT !.total_quantity =
                                      acc.total_quantity - heap[ref].quantity,
                                  !.found = TRUE]
                 ELSE [acc EXCEPT !.temp_queue = Append(acc.temp_queue, ref)])

\* The scan of remove_order: every queued entry is popped; an entry with
\* the id is dropped and its remaining quantity subtracted, any other entry
\* goes to the temporary queue.
RECURSIVE remove_scan(_, _, _, _)
remove_scan(queue, heap, order_id, acc) ==
    IF queue = <<>> THEN acc
    ELSE LET ref == Head(queue)
         IN  WithValue(LAMBDA acc1 : remove_scan(Tail(queue), heap, order_id, acc1),
                 IF heap[ref].order_id = order_id
                 THEN [acc EXCEPT !.total_quantity =
                                      acc.total_quantity
                                        - get_remaining_qty(heap[ref]),
                                  !.found = TRUE]
                 ELSE [acc EXCEPT !.temp_queue = Append(acc.temp_queue, ref)])

\* Mutant of PriceLevel_remove_order: the aggregate is left as it was.
PriceLevel_remove_order_keep_total(level, heap, order_id) ==
    IF level.orders = <<>> THEN [level |-> level, found |-> FALSE]
    ELSE WithValue(LAMBDA r :
                 [level |-> [level EXCEPT !.orders = r.temp_queue],
                  found |-> r.found],
             remove_scan(level.orders, heap, order_id,
                 [total_quantity |-> level.total_quantity,
                  temp_queue |-> <<>>, found |-> FALSE]))

PriceLevel_remove_order(level, heap, order_id) ==
    IF level.orders = <<>> THEN [level |-> level, found |-> FALSE]
    ELSE WithValue(LAMBDA r :
                 [level |-> [level EXCEPT !.total_quantity = r.total_quantity,
                                          !.orders = r.temp_queue],
                  found |-> r.found],
             remove_scan(level.orders, heap, order_id,
                 [total_quantity |-> level.total_quantity,
                  temp_queue |-> <<>>, found |-> FALSE]))

\* A queue never holds a null pointer (add_order drops one and the engine
\* passes none), so the front of a non-empty queue is an order.
get_front_order(level) == Head(level.orders)

pop_front_order(level, heap) ==
    IF level.orders # <<>>
    THEN [level EXCEPT !.total_quantity =
                           level.total_quantity
                             - get_remaining_qty(heap[Head(level.orders)]),
                       !.orders = Tail(level.orders)]
    ELSE level

\* Mutant of update_quantity: the aggregate is left as it was.
update_quantity_stale(level, old_remaining, new_remaining) == level

\* Plain unsigned 64-bit -= and +=: nothing is clamped.  The integers of
\* the model are narrower than 64 bits, so a difference below zero is kept
\* as it is and stands for the wrapped value 2^64 + v.
update_quantity(level, old_remaining, new_remaining) ==
    IF old_remaining >= new_remaining
    THEN [level EXCEPT !.total_quantity =
                           level.total_quantity - (old_remaining - new_remaining)]
    ELSE [level EXCEPT !.total_quantity =
                           level.total_quantity + (new_remaining - old_remaining)]

\* ---------------------------------------------------------------- ladders
\* Mutant of ladder_begin: the other end of the ladder is taken as the best.
ladder_begin_worst(ladder, name) ==
    IF name = "bids"
    THEN CHOOSE p \in DOMAIN ladder : \A q \in DOMAIN ladder : p <= q
    ELSE CHOOSE p \in DOMAIN ladder : \A q \in DOMAIN ladder : q <= p

\* The comparison of the map: std::greater<double> for bids,
\* std::less<double> for asks.
key_comp(name, a, b) == IF name = "bids" THEN double_gt(a, b) ELSE double_lt(a, b)

\* The key of `keys` that the map has before every other.
first_key(keys, name) ==
    CHOOSE p \in keys : \A q \in keys \ {p} : key_comp(name, p, q)

\* A ladder is a function from the prices that have a level to the level.
\* begin() is the highest key of bids (std::greater) and the lowest of asks.
ladder_begin(ladder, name) == first_key(DOMAIN ladder, name)

\* find(price), and the lookup of operator[]: the keys that the comparison
\* puts neither before nor after price, the first of them when there are
\* several; no key (end()) when there is none.  A finite price finds its
\* own key.  The comparison is false of NaN on either side, so a NaN price
\* finds begin() of a map that has keys, as the search goes left at every
\* node, and every price finds a key NaN; a key NaN is therefore made only
\* in an empty map, and is the only key while it is there.
ladder_find(ladder, name, price) ==
    LET equivalent == {k \in DOMAIN ladder :
                          ~key_comp(name, k, price) /\ ~key_comp(name, price, k)}
    IN  IF equivalent = {} THEN {} ELSE {first_key(equivalent, name)}

\* The key that operator[] gives the level of: the key found, or price as
\* a new key.
ladder_key(ladder, name, price) ==
    IF ladder_find(ladder, name, price) = {} THEN price
    ELSE CHOOSE k \in ladder_find(ladder, name, price) : TRUE

ladder_erase(ladder, key) == [p \in (DOMAIN ladder) \ {key} |-> ladder[p]]

ladder_put(ladder, key, level) ==
    [p \in (DOMAIN ladder) \cup {key} |-> IF p = key THEN level ELSE ladder[p]]

map_erase(map, key) == [k \in (DOMAIN map) \ {key} |-> map[k]]

map_put(map, key, value) ==
    [k \in (DOMAIN map) \cup {key} |-> IF k = key THEN value ELSE map[k]]

\* ------------------------------------------------------------------ Trade
Trade(t_id, buy_id, sell_id, p, qty) ==
    [trade_id |-> t_id, buy_order_id |-> buy_id, sell_order_id |-> sell_id,
     price |-> p, quantity |-> qty]

\* --------------------------------------------------------------- matching
\* Mutant of trade_qty: one unit trades at a time.
trade_qty_unit(incoming_order, resting_order) ==
    Min(1, Min(get_remaining_qty(incoming_order), get_remaining_qty(resting_order)))

\* min(incoming remaining, resting remaining) of process_matches_at_level.
trade_qty(incoming_order, resting_order) ==
    Min(get_remaining_qty(incoming_order), get_remaining_qty(resting_order))

\* Mutant of trade_buy_id: the aggressor is always named as the buyer.
trade_buy_id_aggressor(incoming_order, resting_order) ==
    incoming_order.order_id

trade_buy_id(incoming_order, resting_order) ==
    IF incoming_order.side = "BUY" THEN incoming_order.order_id
    ELSE resting_order.order_id

trade_sell_id(incoming_order, resting_order) ==
    IF incoming_order.side = "SELL" THEN incoming_order.order_id
    ELSE resting_order.order_id

\* The test of match_order that the incoming order can trade at the best
\* opposite price.
crossable(incoming_order, best_price) ==
    \/ incoming_order.type = "MARKET"
    \/ IF incoming_order.side = "BUY"
       THEN double_ge(incoming_order.price, best_price)
       ELSE double_le(incoming_order.price, best_price)

\* Mutant of level_trade_price: the trade takes the aggressor's limit.
level_trade_price_aggressor(incoming_order, best_price) ==
    incoming_order.price

\* The price match_order hands to process_matches_at_level: the key of the
\* best opposite level.
level_trade_price(incoming_order, best_price) == best_price

\* The ladder an incoming order matches against, and the one it rests on.
opposite_ladder(side) == IF side = "BUY" THEN "asks" ELSE "bids"

own_ladder(side) == IF side = "BUY" THEN "bids" ELSE "asks"

\* The erase of a resting order that a trade filled completely: it leaves
\* the front of its level and the id index.
remove_filled(level, heap, order_map_, resting_order) ==
    IF is_fully_filled(resting_order)
    THEN [level |-> pop_front_order(level, heap),
          order_map |-> map_erase(order_map_, resting_order.order_id)]
    ELSE [level |-> level, order_map |-> order_map_]

\* The matching state m holds the ladders, the index, the heap, the trade id
\* issuer, the trades produced so far and the exception in flight, if any.
\* One pass of the loop of process_matches_at_level with the front order
\* rref: the trade, the two fills, the aggregate, the removal.  An exception
\* of fill leaves the pass where it was raised.
match_front(m, inc, name, key, trade_price, rref) ==
    LET level == m[name][key]
        incoming_order == m.orders[inc]
        resting_order == m.orders[rref]
        qty == trade_qty(incoming_order, resting_order)
        trade == Trade(m.next_trade_id,
                       trade_buy_id(incoming_order, resting_order),
                       trade_sell_id(incoming_order, resting_order),
                       trade_price, qty)
        old_resting_remaining == get_remaining_qty(resting_order)
    IN  WithValue(LAMBDA f1 :
          IF f1.err # "none"
          THEN [m EXCEPT !.next_trade_id = m.next_trade_id + 1, !.err = f1.err]
          ELSE
            WithValue(LAMBDA f2 :
              IF f2.err # "none"
              THEN [m EXCEPT !.next_trade_id = m.next_trade_id + 1,
                             !.orders = [m.orders EXCEPT ![inc] = f1.order],
                             !.err = f2.err]
              ELSE
                WithValue(LAMBDA heap2 :
                  WithValue(LAMBDA rm :
                      [m EXCEPT ![name] = ladder_put(m[name], key, rm.level),
                                !.orders = heap2,
                                !.order_map = rm.order_map,
                                !.next_trade_id = m.next_trade_id + 1,
                                !.trades = Append(m.trades, trade)],
                    remove_filled(
                        update_quantity(level, old_resting_remaining,
                                        get_remaining_qty(f2.order)),
                        heap2, m.order_map, f2.order)),
                  [m.orders EXCEPT ![inc] = f1.order, ![rref] = f2.order]),
              fill([m.orders EXCEPT ![inc] = f1.order][rref], qty)),
          fill(incoming_order, qty))

\* The matching state m holds the ladders, the index, the heap, the trade id
\* issuer, the trades produced so far and the exception in flight, if any.
RECURSIVE process_matches_at_level(_, _, _, _, _)
process_matches_at_level(m, inc, name, key, trade_price) ==
    IF PriceLevel_empty(m[name][key]) \/ get_remaining_qty(m.orders[inc]) = 0
    THEN m
    ELSE WithValue(LAMBDA m1 :
             IF m1.err # "none" THEN m1
             ELSE process_matches_at_level(m1, inc, name, key, trade_price),
           match_front(m, inc, name, key, trade_price,
                       get_front_order(m[name][key])))

\* After a level was matched, match_order erases it when it is empty.
erase_if_empty(ladder, key) ==
    IF PriceLevel_empty(ladder[key]) THEN ladder_erase(ladder, key) ELSE ladder

RECURSIVE match_order(_, _)
match_order(m, inc) ==
    LET incoming_order == m.orders[inc]
        name == opposite_ladder(incoming_order.side)
    IN  IF m.err # "none" \/ DOMAIN m[name] = {}
           \/ get_remaining_qty(incoming_order) = 0
        THEN m
        ELSE
          LET key == ladder_begin(m[name], name)
          IN  IF crossable(incoming_order, key)
              THEN WithValue(LAMBDA m1 :
                       IF m1.err # "none" THEN m1
                       ELSE WithValue(LAMBDA m2 : match_order(m2, inc),
                                [m1 EXCEPT ![name] = erase_if_empty(m1[name], key)]),
                     process_matches_at_level(m, inc, name, key,
                         level_trade_price(incoming_order, key)))
              ELSE m

\* ----------------------------------------------------------------- engine
\* The engine as one record, for the operators of the public calls.
Engine ==
    [bids |-> bids, asks |-> asks, order_map |-> order_map, orders |-> orders,
     next_order_id |-> next_order_id, next_trade_id |-> next_trade_id,
     total_trades |-> total_trades, total_volume |-> total_volume]

\* The references a ladder's queues hold.
queued_refs(ladder) ==
    UNION {{ladder[p].orders[i] : i \in DOMAIN ladder[p].orders} : p \in DOMAIN ladder}

\* The orders some shared_ptr of the engine still points to.
referenced(e) ==
    queued_refs(e.bids) \cup queued_refs(e.asks)
        \cup {e.order_map[k] : k \in DOMAIN e.order_map}

\* The end of a call: the local shared_ptrs go out of scope, and an order
\* that neither a queue nor the index references is destroyed.
release(e) ==
    [e EXCEPT !.orders = [r \in (DOMAIN e.orders) \cap referenced(e) |-> e.orders[r]]]

released_by(e) ==
    [r \in (DOMAIN e.orders) \ referenced(e) |-> e.orders[r]]

\* Mutant of add_order_rejects: a limit price of 0 gets past the checks.
add_order_rejects_negative_only(price, quantity, type) ==
    \/ quantity = 0
    \/ double_lt(price, 0)

\* The parameter checks that make add_order return 0 before it takes the lock.
add_order_rejects(price, quantity, type) ==
    \/ quantity = 0
    \/ double_lt(price, 0)
    \/ (type = "LIMIT" /\ double_le(price, 0))

RECURSIVE sum_quantity(_)
sum_quantity(trades) ==
    IF trades = <<>> THEN 0
    ELSE Head(trades).quantity + sum_quantity(Tail(trades))

\* The statistics update that ends add_order and add_market_order.
update_statistics(e, trades) ==
    [e EXCEPT !.total_trades = e.total_trades + Len(trades),
              !.total_volume = e.total_volume + sum_quantity(trades)]

\* The matching state at the call of match_order, the incoming order made.
start_match(e, order) ==
    [bids |-> e.bids, asks |-> e.asks, order_map |-> e.order_map,
     orders |-> map_put(e.orders, order.order_id, order),
     next_trade_id |-> e.next_trade_id, trades |-> <<>>, err |-> "none"]

end_match(e, m) ==
    [e EXCEPT !.bids = m.bids, !.asks = m.asks, !.order_map = m.order_map,
              !.orders = m.orders, !.next_trade_id = m.next_trade_id]

\* The condition under which add_order puts the residual on the book.
residual_rests(order, type) ==
    /\ get_remaining_qty(order) > 0
    /\ type = "LIMIT"
    /\ order.status # "CANCELLED"

\* The insertion of the residual: index entry, level made on demand, append.
rest_order(e, order, price, side) ==
    LET name == own_ladder(side)
        ladder == e[name]
        key == ladder_key(ladder, name, price)
        found == IF ladder_find(ladder, name, price) # {} THEN ladder
                 ELSE ladder_put(ladder, price, PriceLevel(price))
    IN  [e EXCEPT !.order_map = map_put(e.order_map, order.order_id, order.order_id),
                  ![name] = ladder_put(found, key,
                                PriceLevel_add_order(found[key], e.orders,
                                                     order.order_id))]

\* A call's outcome: the engine after it, the value returned, the id it
\* assigned, the trades it produced, the orders it released, the exception.
Outcome(e, ret, id, trades, err) ==
    WithValue(LAMBDA e_ :
        [e |-> release(e_), ret |-> ret, id |-> id, trades |-> trades,
         released |-> released_by(e_), err |-> err],
      e)

add_order(e, price, quantity, side, type) ==
    IF add_order_rejects(price, quantity, type)
    THEN Outcome(e, 0, 0, <<>>, "none")
    ELSE
      LET id == e.next_order_id
          e1 == [e EXCEPT !.next_order_id = e.next_order_id + 1]
          cerr == OrderCtorError(price, quantity, type)
      IN  IF cerr # "none" THEN Outcome(e1, 0, id, <<>>, cerr)
          ELSE
            WithValue(LAMBDA m :
              WithValue(LAMBDA e2 :
                  IF m.err # "none" THEN Outcome(e2, 0, id, m.trades, m.err)
                  ELSE Outcome(
                         update_statistics(
                             IF residual_rests(m.orders[id], type)
                             THEN rest_order(e2, m.orders[id], price, side)
                             ELSE e2,
                             m.trades),
                         id, id, m.trades, "none"),
                end_match(e1, m)),
              match_order(start_match(e1, Order(id, price, quantity, side, type)), id))

add_market_order(e, quantity, side) ==
    IF quantity = 0
    THEN Outcome(e, <<>>, 0, <<>>, "none")
    ELSE
      LET id == e.next_order_id
          e1 == [e EXCEPT !.next_order_id = e.next_order_id + 1]
          cerr == OrderCtorError(0, quantity, "MARKET")
      IN  IF cerr # "none" THEN Outcome(e1, <<>>, id, <<>>, cerr)
          ELSE
            WithValue(LAMBDA m :
              WithValue(LAMBDA e2 :
                  IF m.err # "none" THEN Outcome(e2, <<>>, id, m.trades, m.err)
                  ELSE Outcome(update_statistics(e2, m.trades), m.trades, id,
                               m.trades, "none"),
                end_match(e1, m)),
              match_order(start_match(e1, Order(id, 0, quantity, side, "MARKET")), id))

\* Mutant of cancel_in_ladder: the level is kept when the cancel empties it.
cancel_in_ladder_keep_level(ladder, name, heap, order, order_id) ==
    IF ladder_find(ladder, name, order.price) # {}
    THEN WithValue(LAMBDA r :
             [ladder |-> ladder_put(ladder, ladder_key(ladder, name, order.price),
                                    r.level),
              removed |-> r.found],
           PriceLevel_remove_order(ladder[ladder_key(ladder, name, order.price)],
                                   heap, order_id))
    ELSE [ladder |-> ladder, removed |-> FALSE]

\* cancel_order removes the order from the level its price finds on the
\* ladder of its side, erases the level when that empties it, and erases
\* the index entry; the result is what the level's remove_order reported.
cancel_in_ladder(ladder, name, heap, order, order_id) ==
    IF ladder_find(ladder, name, order.price) # {}
    THEN WithValue(LAMBDA r :
             [ladder |-> IF PriceLevel_empty(r.level)
                         THEN ladder_erase(ladder,
                                           ladder_key(ladder, name, order.price))
                         ELSE ladder_put(ladder,
                                         ladder_key(ladder, name, order.price),
                                         r.level),
              removed |-> r.found],
           PriceLevel_remove_order(ladder[ladder_key(ladder, name, order.price)],
                                   heap, order_id))
    ELSE [ladder |-> ladder, removed |-> FALSE]

cancel_order(e, order_id) ==
    IF order_id \notin DOMAIN e.order_map
    THEN Outcome(e, FALSE, 0, <<>>, "none")
    ELSE
      LET ref == e.order_map[order_id]
          heap1 == [e.orders EXCEPT ![ref] = cancel(e.orders[ref])]
          order == heap1[ref]
          name == own_ladder(order.side)
      IN  WithValue(LAMBDA c :
              Outcome([e EXCEPT !.orders = heap1,
                                ![name] = c.ladder,
                                !.order_map = map_erase(e.order_map, order_id)],
                      c.removed, 0, <<>>, "none"),
            cancel_in_ladder(e[name], name, heap1, order, order_id))

\* Mutant of clear: total_volume is not reset.
clear_keeps_volume(e) ==
    Outcome([e EXCEPT !.bids = <<>>, !.asks = <<>>, !.order_map = <<>>,
                      !.total_trades = 0],
            FALSE, 0, <<>>, "none")

clear(e) ==
    Outcome([e EXCEPT !.bids = <<>>, !.asks = <<>>, !.order_map = <<>>,
                      !.total_trades = 0, !.total_volume = 0],
            FALSE, 0, <<>>, "none")

\* ------------------------------------------------------------ market data
\* std::optional<double>: nullopt has no value (its value field is 0 here).
nullopt == [has_value |-> FALSE, value |-> 0]

make_optional(v) == [has_value |-> TRUE, value |-> v]

get_best_bid(e) ==
    IF DOMAIN e.bids = {} THEN nullopt
    ELSE make_optional(ladder_begin(e.bids, "bids"))

get_best_ask(e) ==
    IF DOMAIN e.asks = {} THEN nullopt
    ELSE make_optional(ladder_begin(e.asks, "asks"))

get_spread(e) ==
    IF DOMAIN e.bids = {} \/ DOMAIN e.asks = {} THEN nullopt
    ELSE make_optional(double_sub(ladder_begin(e.asks, "asks"),
                                  ladder_begin(e.bids, "bids")))

\* std::advance(begin(), level): the key `level` places after the first.
RECURSIVE ladder_advance(_, _, _)
ladder_advance(ladder, name, level) ==
    IF level = 0 THEN ladder_begin(ladder, name)
    ELSE ladder_advance(ladder_erase(ladder, ladder_begin(ladder, name)), name,
                        level - 1)

get_bid_depth_at_level(e, level) ==
    IF level >= Cardinality(DOMAIN e.bids) THEN 0
    ELSE e.bids[ladder_advance(e.bids, "bids", level)].total_quantity

get_ask_depth_at_level(e, level) ==
    IF level >= Cardinality(DOMAIN e.asks) THEN 0
    ELSE e.asks[ladder_advance(e.asks, "asks", level)].total_quantity

get_total_orders == Cardinality(DOMAIN order_map)

get_total_trades(e) == e.total_trades

get_total_volume(e) == e.total_volume

\* ---------------------------------------------------- mutex and threads
\* The engine as its constructor leaves it.
NewEngine ==
    [bids |-> <<>>, asks |-> <<>>, order_map |-> <<>>, orders |-> <<>>,
     next_order_id |-> 1, next_trade_id |-> 1,
     total_trades |-> 0, total_volume |-> 0]

\* std::shared_mutex: the thread that owns it exclusively (0 for none) and
\* the shared ownerships each thread has.  Whether lock_shared is granted
\* while a thread waits in lock() is the implementation's choice.
Policies == {"reader_preference", "writer_preference"}

Unlocked(policy) ==
    [exclusive |-> 0, shared |-> [t \in Threads |-> 0], policy |-> policy]

\* Mutant of can_lock: the exclusive owner is not looked at.
can_lock_among_writers(mutex_) == \A t \in Threads : mutex_.shared[t] = 0

\* std::unique_lock's constructor returns once nobody owns the mutex.
can_lock(mutex_) ==
    /\ mutex_.exclusive = 0
    /\ \A t \in Threads : mutex_.shared[t] = 0

\* Mutant of can_lock_shared: shared ownership is granted at once.
can_lock_shared_always(mutex_, writer_waiting) == TRUE

\* std::shared_lock's constructor returns once nobody owns the mutex
\* exclusively and, where waiting writers come first, none is waiting.  A
\* thread that already has shared ownership is treated no differently.
can_lock_shared(mutex_, writer_waiting) ==
    /\ mutex_.exclusive = 0
    /\ mutex_.policy = "writer_preference" => ~writer_waiting

\* A thread: where it is in its call (pc), the call (op), and the locals of
\* the call: the order made or looked up, the key of the level being
\* matched, the trades vector, the Trade made and not yet pushed, the
\* resting remainder before the fill, a loop index or level argument,
\* cancel_order's `removed`, and the value a read is about to return.
NoValue == [has_value |-> FALSE, value |-> 0]

IdleThread ==
    [pc |-> "idle", op |-> "none", order |-> 0, key |-> 0, trades |-> <<>>,
     trade |-> Trade(0, 0, 0, 0, 0), old_resting_remaining |-> 0, i |-> 0,
     removed |-> FALSE, ret |-> NoValue]

\* -------------------------------------------------------------- behaviour
\* `last` is the last public call: the id it assigned (add) or removed
\* (cancel), 0 if none; what it returned; the trades it produced; the orders
\* it released, with their final values; and the exception it let out.
\* `trade_log` is the trades produced since the last clear (since
\* construction before the first).  A market-data read records the level
\* it asked for and what it returned: an optional in ret_ok (has_value)
\* and ret_id (value), a number in ret_id.
NoCall ==
    [op |-> "none", order_id |-> 0, ret_id |-> 0, ret_ok |-> FALSE,
     trades |-> <<>>, released |-> <<>>, err |-> "none", level |-> 0]

\* The mutex, the threads and the committed engine of SpecThreads.
UnchangedThreads == UNCHANGED <<mutex, threads, committed>>

Install(e) ==
    /\ UnchangedThreads
    /\ bids' = e.bids
    /\ asks' = e.asks
    /\ order_map' = e.order_map
    /\ orders' = e.orders
    /\ next_order_id' = e.next_order_id
    /\ next_trade_id' = e.next_trade_id
    /\ total_trades' = e.total_trades
    /\ total_volume' = e.total_volume

Init ==
    /\ bids = <<>>
    /\ asks = <<>>
    /\ order_map = <<>>
    /\ orders = <<>>
    /\ next_order_id = 1
    /\ next_trade_id = 1
    /\ total_trades = 0
    /\ total_volume = 0
    /\ trade_log = <<>>
    /\ last = NoCall
    /\ mutex = Unlocked("reader_preference")
    /\ threads = [t \in Threads |-> IdleThread]
    /\ committed = NewEngine

AddOrder ==
    \E price \in PriceInputs, quantity \in QtyInputs, side \in Sides,
       type \in OrderTypes :
        /\ add_order_rejects(price, quantity, type) \/ next_order_id <= MaxOrders
        /\ \E r \in {add_order(Engine, price, quantity, side, type)} :
               /\ Install(r.e)
               /\ trade_log' = trade_log \o r.trades
               /\ last' = [NoCall EXCEPT !.op = "add_order", !.order_id = r.id,
                                         !.ret_id = r.ret, !.trades = r.trades,
                                         !.released = r.released,
                                         !.err = r.err]

AddMarketOrder ==
    \E quantity \in QtyInputs, side \in Sides :
        /\ quantity = 0 \/ next_order_id <= MaxOrders
        /\ \E r \in {add_market_order(Engine, quantity, side)} :
               /\ Install(r.e)
               /\ trade_log' = trade_log \o r.trades
               /\ last' = [NoCall EXCEPT !.op = "add_market_order",
                                         !.order_id = r.id,
                                         !.trades = r.trades,
                                         !.released = r.released,
                                         !.err = r.err]

CancelOrder ==
    \E order_id \in IdInputs :
        \E r \in {cancel_order(Engine, order_id)} :
            /\ Install(r.e)
            /\ UNCHANGED trade_log
            /\ last' = [NoCall EXCEPT !.op = "cancel_order",
                                      !.order_id = IF r.ret THEN order_id ELSE 0,
                                      !.ret_ok = r.ret,
                                      !.released = r.released]

Clear ==
    \E r \in {clear(Engine)} :
        /\ Install(r.e)
        /\ trade_log' = <<>>
        /\ last' = [NoCall EXCEPT !.op = "clear", !.released = r.released]

Next == AddOrder \/ AddMarketOrder \/ CancelOrder \/ Clear

Spec == Init /\ [][Next]_vars

\* ------------------------------------------------------ market-data reads
\* The engine's calls together with the market-data reads, each read one
\* step of the single thread that calls the engine.
ReadOptional(name, opt) ==
    /\ UnchangedThreads
    /\ UNCHANGED <<bids, asks, order_map, orders, next_order_id, next_trade_id,
                   total_trades, total_volume, trade_log>>
    /\ last' = [NoCall EXCEPT !.op = name, !.ret_ok = opt.has_value,
                              !.ret_id = opt.value]

ReadNumber(name, level, n) ==
    /\ UnchangedThreads
    /\ UNCHANGED <<bids, asks, order_map, orders, next_order_id, next_trade_id,
                   total_trades, total_volume, trade_log>>
    /\ last' = [NoCall EXCEPT !.op = name, !.level = level, !.ret_id = n]

GetBestBid == ReadOptional("get_best_bid", get_best_bid(Engine))

GetBestAsk == ReadOptional("get_best_ask", get_best_ask(Engine))

GetSpread == ReadOptional("get_spread", get_spread(Engine))

GetBidDepthAtLevel ==
    \E level \in LevelInputs :
        ReadNumber("get_bid_depth_at_level", level,
                   get_bid_depth_at_level(Engine, level))

GetAskDepthAtLevel ==
    \E level \in LevelInputs :
        ReadNumber("get_ask_depth_at_level", level,
                   get_ask_depth_at_level(Engine, level))

GetTotalOrders == ReadNumber("get_total_orders", 0, get_total_orders)

NextReads ==
    \/ AddOrder \/ AddMarketOrder \/ CancelOrder \/ Clear
    \/ GetBestBid \/ GetBestAsk \/ GetSpread
    \/ GetBidDepthAtLevel \/ GetAskDepthAtLevel \/ GetTotalOrders

SpecReads == Init /\ [][NextReads]_vars

\* ------------------------------------------------------------ the threads
\* SpecThreads: each thread makes public calls one after the other, and a
\* call is run statement by statement on the engine's members, the other
\* threads taking their steps in between.  A thread that waits for the
\* mutex has done nothing yet that tells its call from another: which call
\* it is is drawn at the statement that takes the lock, and the call's
\* arguments at the statement that first uses them.  add_order calls that
\* the parameter checks reject return before they touch the mutex or a
\* member and are left out here.  `committed` is the engine as the last
\* mutation that ended, by a return or by an exception, left it; `last`
\* and `trade_log` are not used.
EngineVars ==
    <<bids, asks, order_map, orders, next_order_id, next_trade_id,
      total_trades, total_volume>>

Mutations == {"add_order", "add_market_order", "cancel_order", "clear"}

LockedReads ==
    {"get_best_bid", "get_best_ask", "get_spread", "get_bid_depth_at_level",
     "get_ask_depth_at_level", "get_total_orders"}

UnlockedReads == {"get_total_trades", "get_total_volume"}

\* A thread is waiting in the constructor of its unique_lock.
WriterWaiting == \E t \in Threads : threads[t].pc = "lock"

SetThread(t, thread) == threads' = [threads EXCEPT ![t] = thread]

\* The orders some call still holds a shared_ptr to.
held_refs(ts) == {ts[t].order : t \in {u \in Threads : ts[u].pc # "idle"}}

\* A thread enters a mutating call and comes to its unique_lock.
Call(t) ==
    /\ threads[t].pc = "idle"
    /\ SetThread(t, [IdleThread EXCEPT !.pc = "lock"])
    /\ UNCHANGED <<EngineVars, trade_log, last, mutex, committed>>

\* std::unique_lock<std::shared_mutex> lock(mutex_) of the call op, one
\* that makes an order only while fewer than max_orders have been made.
LockOf(t, max_orders) ==
    /\ threads[t].pc = "lock"
    /\ can_lock(mutex)
    /\ mutex' = [mutex EXCEPT !.exclusive = t]
    /\ \E op \in Mutations :
           /\ op \in {"add_order", "add_market_order"}
                  => next_order_id <= max_orders
           /\ SetThread(t, [threads[t] EXCEPT
                               !.op = op,
                               !.pc = CASE op = "cancel_order" -> "find"
                                        [] op = "clear" -> "clear_bids"
                                        [] OTHER -> "make"])
    /\ UNCHANGED <<EngineVars, trade_log, last, committed>>

Lock(t) == LockOf(t, MaxThreadOrders)

\* std::make_shared<Order>(next_order_id_++, ...)
Make(t) ==
    /\ threads[t].pc = "make"
    /\ \E price \in ThreadPrices, quantity \in ThreadQtys, side \in Sides :
           LET id == next_order_id
               order == IF threads[t].op = "add_order"
                        THEN Order(id, price, quantity, side, "LIMIT")
                        ELSE Order(id, 0, quantity, side, "MARKET")
           IN  /\ threads[t].op = "add_market_order" => price = 1
               /\ next_order_id' = id + 1
               /\ orders' = map_put(orders, id, order)
               /\ SetThread(t, [threads[t] EXCEPT !.pc = "match", !.order = id])
    /\ UNCHANGED <<bids, asks, order_map, next_trade_id, total_trades,
                   total_volume, trade_log, last, mutex, committed>>

\* The loop test of match_order and, when it ends the loop, the test of
\* add_order for the residual.
MatchTest(t) ==
    /\ threads[t].pc = "match"
    /\ LET incoming_order == orders[threads[t].order]
           name == opposite_ladder(incoming_order.side)
           ladder == Engine[name]
       IN  IF /\ DOMAIN ladder # {}
              /\ get_remaining_qty(incoming_order) > 0
              /\ crossable(incoming_order, ladder_begin(ladder, name))
           THEN SetThread(t, [threads[t] EXCEPT !.pc = "level",
                                                !.key = ladder_begin(ladder, name)])
           ELSE IF /\ threads[t].op = "add_order"
                   /\ residual_rests(incoming_order, incoming_order.type)
                THEN SetThread(t, [threads[t] EXCEPT !.pc = "index"])
                ELSE SetThread(t, [threads[t] EXCEPT !.pc = "statistics"])
    /\ UNCHANGED <<EngineVars, trade_log, last, mutex, committed>>

\* The ladder the thread matches against, and the level it is at.
MatchLadder(t) == opposite_ladder(orders[threads[t].order].side)

MatchLevel(t) == Engine[MatchLadder(t)][threads[t].key]

LevelContinues(t) ==
    /\ ~PriceLevel_empty(MatchLevel(t))
    /\ get_remaining_qty(orders[threads[t].order]) > 0

SetLadder(name, ladder) ==
    IF name = "bids" THEN bids' = ladder /\ UNCHANGED asks
    ELSE asks' = ladder /\ UNCHANGED bids

\* process_matches_at_level, from the loop test to the two fills: the
\* Trade is made and the trade id issued, then the incoming order is filled
\* and then the resting one.  A fill that throws leaves the order it was
\* called on untouched, and the exception leaves the public call: no
\* statement after the fill is run, the stack is unwound, the locals go,
\* the orders nothing refers to are destroyed, the unique_lock is released.
Fill(t) ==
    /\ threads[t].pc = "level"
    /\ LevelContinues(t)
    /\ LET inc == threads[t].order
           incoming_order == orders[inc]
           rref == get_front_order(MatchLevel(t))
           resting_order == orders[rref]
           qty == trade_qty(incoming_order, resting_order)
           trade == Trade(next_trade_id,
                          trade_buy_id(incoming_order, resting_order),
                          trade_sell_id(incoming_order, resting_order),
                          level_trade_price(incoming_order, threads[t].key), qty)
           f1 == fill(incoming_order, qty)
           f2 == fill(resting_order, qty)
       IN  /\ next_trade_id' = next_trade_id + 1
           /\ IF f1.err = "none" /\ f2.err = "none"
              THEN /\ orders' = [orders EXCEPT ![inc] = f1.order,
                                               ![rref] = f2.order]
                   /\ SetThread(t, [threads[t] EXCEPT
                                       !.pc = "aggregate", !.trade = trade,
                                       !.old_resting_remaining =
                                           get_remaining_qty(resting_order)])
                   /\ UNCHANGED <<mutex, committed>>
              ELSE LET filled == IF f1.err = "none"
                                 THEN [orders EXCEPT ![inc] = f1.order]
                                 ELSE orders
                       kept == referenced(Engine)
                                   \cup held_refs([threads EXCEPT ![t] = IdleThread])
                       heap == [r \in (DOMAIN filled) \cap kept |-> filled[r]]
                   IN  /\ orders' = heap
                       /\ SetThread(t, IdleThread)
                       /\ mutex' = [mutex EXCEPT !.exclusive = 0]
                       /\ committed' = [Engine EXCEPT
                                            !.orders = heap,
                                            !.next_trade_id = next_trade_id + 1]
    /\ UNCHANGED <<bids, asks, order_map, next_order_id, total_trades,
                   total_volume, trade_log, last>>

\* level.update_quantity(...); trades.push_back(trade)
Aggregate(t) ==
    /\ threads[t].pc = "aggregate"
    /\ LET name == MatchLadder(t)
           level == MatchLevel(t)
           resting_order == orders[get_front_order(level)]
       IN  SetLadder(name,
               ladder_put(Engine[name], threads[t].key,
                   update_quantity(level, threads[t].old_resting_remaining,
                                   get_remaining_qty(resting_order))))
    /\ SetThread(t, [threads[t] EXCEPT
                        !.pc = "remove",
                        !.trades = Append(threads[t].trades, threads[t].trade)])
    /\ UNCHANGED <<order_map, orders, next_order_id, next_trade_id,
                   total_trades, total_volume, trade_log, last, mutex, committed>>

\* if (resting_order->is_fully_filled()) { pop_front_order; order_map_.erase }
RemoveFilled(t) ==
    /\ threads[t].pc = "remove"
    /\ LET name == MatchLadder(t)
           level == MatchLevel(t)
           rm == remove_filled(level, orders, order_map,
                               orders[get_front_order(level)])
       IN  /\ SetLadder(name, ladder_put(Engine[name], threads[t].key, rm.level))
           /\ order_map' = rm.order_map
    /\ SetThread(t, [threads[t] EXCEPT !.pc = "level"])
    /\ UNCHANGED <<orders, next_order_id, next_trade_id, total_trades,
                   total_volume, trade_log, last, mutex, committed>>

\* Back in match_order: if (best_level.empty()) erase
EraseLevel(t) ==
    /\ threads[t].pc = "level"
    /\ ~LevelContinues(t)
    /\ SetLadder(MatchLadder(t),
                 erase_if_empty(Engine[MatchLadder(t)], threads[t].key))
    /\ SetThread(t, [threads[t] EXCEPT !.pc = "match", !.key = 0])
    /\ UNCHANGED <<order_map, orders, next_order_id, next_trade_id,
                   total_trades, total_volume, trade_log, last, mutex, committed>>

\* order_map_[order_id] = order
Index(t) ==
    /\ threads[t].pc = "index"
    /\ order_map' = map_put(order_map, threads[t].order, threads[t].order)
    /\ SetThread(t, [threads[t] EXCEPT !.pc = "queue"])
    /\ UNCHANGED <<bids, asks, orders, next_order_id, next_trade_id,
                   total_trades, total_volume, trade_log, last, mutex, committed>>

\* The level is made if the price has none, and the order appended to it.
Queue(t) ==
    /\ threads[t].pc = "queue"
    /\ LET order == orders[threads[t].order]
           name == own_ladder(order.side)
           ladder == Engine[name]
           key == ladder_key(ladder, name, order.price)
           found == IF ladder_find(ladder, name, order.price) # {} THEN ladder
                    ELSE ladder_put(ladder, order.price, PriceLevel(order.price))
       IN  SetLadder(name,
               ladder_put(found, key,
                   PriceLevel_add_order(found[key], orders, order.order_id)))
    /\ SetThread(t, [threads[t] EXCEPT !.pc = "statistics"])
    /\ UNCHANGED <<order_map, orders, next_order_id, next_trade_id,
                   total_trades, total_volume, trade_log, last, mutex, committed>>

\* total_trades_ += trades.size()
StatTrades(t) ==
    /\ threads[t].pc = "statistics"
    /\ total_trades' = total_trades + Len(threads[t].trades)
    /\ SetThread(t, [threads[t] EXCEPT !.pc = "volume", !.i = 1])
    /\ UNCHANGED <<bids, asks, order_map, orders, next_order_id, next_trade_id,
                   total_volume, trade_log, last, mutex, committed>>

\* for (const auto& trade : trades) total_volume_ += trade.quantity
StatVolume(t) ==
    /\ threads[t].pc = "volume"
    /\ IF threads[t].i <= Len(threads[t].trades)
       THEN /\ total_volume' = total_volume
                                 + threads[t].trades[threads[t].i].quantity
            /\ SetThread(t, [threads[t] EXCEPT !.i = threads[t].i + 1])
       ELSE /\ UNCHANGED total_volume
            /\ SetThread(t, [threads[t] EXCEPT !.pc = "return"])
    /\ UNCHANGED <<bids, asks, order_map, orders, next_order_id, next_trade_id,
                   total_trades, trade_log, last, mutex, committed>>

\* cancel_order: order_map_.find(order_id)
Find(t) ==
    /\ threads[t].pc = "find"
    /\ \E order_id \in ThreadIds :
           IF order_id \in DOMAIN order_map
           THEN SetThread(t, [threads[t] EXCEPT !.pc = "cancel", !.i = order_id,
                                                !.order = order_map[order_id]])
           ELSE SetThread(t, [threads[t] EXCEPT !.pc = "return", !.i = order_id])
    /\ UNCHANGED <<EngineVars, trade_log, last, mutex, committed>>

\* order->cancel()
CancelStatus(t) ==
    /\ threads[t].pc = "cancel"
    /\ orders' = [orders EXCEPT ![threads[t].order] = cancel(orders[threads[t].order])]
    /\ SetThread(t, [threads[t] EXCEPT !.pc = "remove_order"])
    /\ UNCHANGED <<bids, asks, order_map, next_order_id, next_trade_id,
                   total_trades, total_volume, trade_log, last, mutex, committed>>

\* The level's remove_order and the erase of the level it empties.
RemoveOrder(t) ==
    /\ threads[t].pc = "remove_order"
    /\ LET order == orders[threads[t].order]
           name == own_ladder(order.side)
       IN  \E c \in {cancel_in_ladder(Engine[name], name, orders, order, threads[t].i)} :
               /\ SetLadder(name, c.ladder)
               /\ SetThread(t, [threads[t] EXCEPT !.pc = "unindex",
                                                  !.removed = c.removed])
    /\ UNCHANGED <<order_map, orders, next_order_id, next_trade_id,
                   total_trades, total_volume, trade_log, last, mutex, committed>>

\* order_map_.erase(it)
Unindex(t) ==
    /\ threads[t].pc = "unindex"
    /\ order_map' = map_erase(order_map, threads[t].i)
    /\ SetThread(t, [threads[t] EXCEPT !.pc = "return"])
    /\ UNCHANGED <<bids, asks, orders, next_order_id, next_trade_id,
                   total_trades, total_volume, trade_log, last, mutex, committed>>

\* The five statements of clear, one a step.
ClearStatement(t) ==
    /\ threads[t].pc \in {"clear_bids", "clear_asks", "clear_index",
                          "clear_trades", "clear_volume"}
    /\ bids' = IF threads[t].pc = "clear_bids" THEN <<>> ELSE bids
    /\ asks' = IF threads[t].pc = "clear_asks" THEN <<>> ELSE asks
    /\ order_map' = IF threads[t].pc = "clear_index" THEN <<>> ELSE order_map
    /\ total_trades' = IF threads[t].pc = "clear_trades" THEN 0 ELSE total_trades
    /\ total_volume' = IF threads[t].pc = "clear_volume" THEN 0 ELSE total_volume
    /\ SetThread(t, [threads[t] EXCEPT !.pc =
                        CASE threads[t].pc = "clear_bids" -> "clear_asks"
                          [] threads[t].pc = "clear_asks" -> "clear_index"
                          [] threads[t].pc = "clear_index" -> "clear_trades"
                          [] threads[t].pc = "clear_trades" -> "clear_volume"
                          [] OTHER -> "return"])
    /\ UNCHANGED <<orders, next_order_id, next_trade_id, trade_log, last,
                   mutex, committed>>

\* The return of a mutating call: its locals go, the orders nothing refers
\* to are destroyed, the unique_lock is released.
Return(t) ==
    /\ threads[t].pc = "return"
    /\ SetThread(t, IdleThread)
    /\ mutex' = [mutex EXCEPT !.exclusive = 0]
    /\ LET kept == referenced(Engine)
                       \cup held_refs([threads EXCEPT ![t] = IdleThread])
           heap == [r \in (DOMAIN orders) \cap kept |-> orders[r]]
       IN  /\ orders' = heap
           /\ committed' = [Engine EXCEPT !.orders = heap]
    /\ UNCHANGED <<bids, asks, order_map, next_order_id, next_trade_id,
                   total_trades, total_volume, trade_log, last>>

\* A thread enters a market-data read that takes the shared lock, or
\* print_book, and comes to its shared_lock.
CallRead(t) ==
    /\ threads[t].pc = "idle"
    /\ SetThread(t, [IdleThread EXCEPT !.pc = "lock_shared"])
    /\ UNCHANGED <<EngineVars, trade_log, last, mutex, committed>>

\* std::shared_lock<std::shared_mutex> lock(mutex_) of the call op
LockShared(t) ==
    /\ threads[t].pc = "lock_shared"
    /\ can_lock_shared(mutex, WriterWaiting)
    /\ mutex' = [mutex EXCEPT !.shared[t] = mutex.shared[t] + 1]
    /\ \E op \in LockedReads \cup {"print_book"} :
           SetThread(t, [threads[t] EXCEPT
                            !.op = op,
                            !.pc = IF op = "print_book" THEN "print" ELSE "read"])
    /\ UNCHANGED <<EngineVars, trade_log, last, committed>>

\* What a read returns: an optional, or a number as an optional with a value.
ReadResult(op, level, e) ==
    CASE op = "get_best_bid" -> get_best_bid(e)
      [] op = "get_best_ask" -> get_best_ask(e)
      [] op \in {"get_spread", "print_book"} -> get_spread(e)
      [] op = "get_bid_depth_at_level" -> make_optional(get_bid_depth_at_level(e, level))
      [] op = "get_ask_depth_at_level" -> make_optional(get_ask_depth_at_level(e, level))
      [] op = "get_total_orders" -> make_optional(Cardinality(DOMAIN e.order_map))
      [] op = "get_total_trades" -> make_optional(get_total_trades(e))
      [] op = "get_total_volume" -> make_optional(get_total_volume(e))

\* The body of a read that holds the shared_lock: the value to return,
\* for a depth read that of the level asked for.
Read(t) ==
    /\ threads[t].pc = "read"
    /\ \E level \in ThreadLevels :
           /\ threads[t].op \notin {"get_bid_depth_at_level",
                                    "get_ask_depth_at_level"}
                  => level = 0
           /\ SetThread(t, [threads[t] EXCEPT
                               !.pc = "read_end", !.i = level,
                               !.ret = ReadResult(threads[t].op, level, Engine)])
    /\ UNCHANGED <<EngineVars, trade_log, last, mutex, committed>>

\* print_book, its levels and statistics printed, calls get_spread, whose
\* shared_lock is taken while print_book's own is held.
PrintSpreadLock(t) ==
    /\ threads[t].pc = "print"
    /\ can_lock_shared(mutex, WriterWaiting)
    /\ mutex' = [mutex EXCEPT !.shared[t] = mutex.shared[t] + 1]
    /\ SetThread(t, [threads[t] EXCEPT !.pc = "spread"])
    /\ UNCHANGED <<EngineVars, trade_log, last, committed>>

\* get_spread's body and return inside print_book: its shared_lock goes.
PrintSpread(t) ==
    /\ threads[t].pc = "spread"
    /\ mutex' = [mutex EXCEPT !.shared[t] = mutex.shared[t] - 1]
    /\ SetThread(t, [threads[t] EXCEPT
                        !.pc = "read_end",
                        !.ret = ReadResult("print_book", 0, Engine)])
    /\ UNCHANGED <<EngineVars, trade_log, last, committed>>

\* get_total_trades and get_total_volume: inline in the header, the member
\* is returned without a lock.
\* The read races with the writes of a mutation in progress: it
\* may return the member as any statement of the writer has left it.
ReadStatistic(t) ==
    /\ threads[t].pc = "idle"
    /\ \E op \in UnlockedReads :
           SetThread(t, [IdleThread EXCEPT !.pc = "read_end", !.op = op,
                                           !.ret = ReadResult(op, 0, Engine)])
    /\ UNCHANGED <<EngineVars, trade_log, last, mutex, committed>>

\* The return of a read; the shared_lock of the call, if it took one, goes.
ReadReturn(t) ==
    /\ threads[t].pc = "read_end"
    /\ mutex' = IF threads[t].op \in UnlockedReads THEN mutex
                ELSE [mutex EXCEPT !.shared[t] = mutex.shared[t] - 1]
    /\ SetThread(t, IdleThread)
    /\ UNCHANGED <<EngineVars, trade_log, last, committed>>

InitThreads ==
    /\ bids = <<>>
    /\ asks = <<>>
    /\ order_map = <<>>
    /\ orders = <<>>
    /\ next_order_id = 1
    /\ next_trade_id = 1
    /\ total_trades = 0
    /\ total_volume = 0
    /\ trade_log = <<>>
    /\ last = NoCall
    /\ mutex \in {Unlocked(policy) : policy \in Policies}
    /\ threads = [t \in Threads |-> IdleThread]
    /\ committed = NewEngine

NextThreads ==
    \E t \in Threads :
        \/ Call(t) \/ Lock(t) \/ Make(t) \/ MatchTest(t) \/ Fill(t)
        \/ Aggregate(t) \/ RemoveFilled(t) \/ EraseLevel(t) \/ Index(t)
        \/ Queue(t) \/ StatTrades(t) \/ StatVolume(t)
        \/ Find(t) \/ CancelStatus(t) \/ RemoveOrder(t) \/ Unindex(t)
        \/ ClearStatement(t) \/ Return(t)
        \/ CallRead(t) \/ LockShared(t) \/ Read(t)
        \/ PrintSpreadLock(t) \/ PrintSpread(t)
        \/ ReadStatistic(t) \/ ReadReturn(t)

SpecThreads == InitThreads /\ [][NextThreads]_vars

\* ---------------------------------------------------------------------
\* One thread alone: the walk of a call from its lock to its return.
\* ---------------------------------------------------------------------

Walker == 1

\* The lock of a call of the thread that runs alone.
WalkLock(t) == LockOf(t, MaxWalkOrders)

\* A statement of a mutating call that has started.
Step(t) ==
    \/ WalkLock(t) \/ Make(t) \/ MatchTest(t) \/ Fill(t) \/ Aggregate(t)
    \/ RemoveFilled(t) \/ EraseLevel(t) \/ Index(t) \/ Queue(t)
    \/ StatTrades(t) \/ StatVolume(t) \/ Find(t) \/ CancelStatus(t)
    \/ RemoveOrder(t) \/ Unindex(t) \/ ClearStatement(t) \/ Return(t)

NextWalk == Call(Walker) \/ Step(Walker)

\* One thread never finds the mutex owned, so what the mutex does for a
\* reader while a writer waits is not drawn.
InitWalk == InitThreads /\ mutex.policy = "reader_preference"

\* The thread that is inside a call runs its next statement: no statement
\* of a call waits for anything but the mutex, and the mutex is free.
SpecWalk == InitWalk /\ [][NextWalk]_vars /\ WF_vars(Step(Walker))

\* ============================================================ properties
\* Vocabulary of the properties: the levels of the book, the queue
\* positions, and the value of an order before and after a call.
LadderOf(name) == IF name = "bids" THEN bids ELSE asks

LevelKeys == {<<"bids", p>> : p \in DOMAIN bids} \cup {<<"asks", p>> : p \in DOMAIN asks}

LevelAt(k) == LadderOf(k[1])[k[2]]

\* One element per queue entry: <<ladder, price key, position in the queue>>.
QueuePositions ==
    UNION {{<<k[1], k[2], i>> : i \in DOMAIN LevelAt(k).orders} : k \in LevelKeys}

RefAt(pos) == LadderOf(pos[1])[pos[2]].orders[pos[3]]

RECURSIVE SeqSum(_)
SeqSum(q) == IF Len(q) = 0 THEN 0 ELSE q[Len(q)] + SeqSum(SubSeq(q, 1, Len(q) - 1))

\* The order as the last call left it, on the book or released by the call.
order_of(id) == IF id \in DOMAIN orders THEN orders[id] ELSE last.released[id]

TradeNames(t, id) == t.buy_order_id = id \/ t.sell_order_id = id

\* An outcome as `last` records a call: the id assigned, the trades
\* produced, the orders released, the exception let out; and the engine
\* the call leaves.
AsCall(r) ==
    [order_id |-> r.id, trades |-> r.trades, released |-> r.released,
     err |-> r.err, e |-> r.e]

\* The add calls of every argument combination, made from the current state.
AddCalls ==
    {AsCall(r) : r \in {add_order(Engine, price, quantity, side, type) :
                            price \in PriceInputs, quantity \in QtyInputs,
                            side \in Sides, type \in OrderTypes}}
      \cup {AsCall(r) : r \in {add_market_order(Engine, quantity, side) :
                                  quantity \in QtyInputs, side \in Sides}}

\* ------------------------------------------------------------------- C1
\* C1: whenever both ladders are non-empty, the highest bid price is
\* strictly below the lowest ask price.
C1_UncrossedBook ==
    (DOMAIN bids # {} /\ DOMAIN asks # {})
        => \A b \in DOMAIN bids : \A a \in DOMAIN asks : double_lt(b, a)

\* Both sides rest orders right after a call that traded.
C1_Witness ==
    /\ DOMAIN bids # {}
    /\ DOMAIN asks # {}
    /\ last.trades # <<>>

\* ------------------------------------------------------------------- C2
\* C2: at every level of either ladder the cached total_quantity equals the
\* sum of quantity - filled_qty over the orders queued at the level.
C2_AggregateConsistency ==
    \A k \in LevelKeys :
        LevelAt(k).total_quantity =
            SeqSum([i \in DOMAIN LevelAt(k).orders |->
                       orders[LevelAt(k).orders[i]].quantity
                         - orders[LevelAt(k).orders[i]].filled_qty])

\* A partially filled order was just cancelled out of a level that still
\* queues another order.
C2_Witness ==
    /\ last.op = "cancel_order"
    /\ last.ret_ok
    /\ last.released[last.order_id].filled_qty > 0
    /\ \E k \in LevelKeys : k[2] = last.released[last.order_id].price

\* ------------------------------------------------------------------- C3
\* C3: the ids in the index are exactly the ids queued in the levels of both
\* ladders, no id is queued twice, and total_orders() is the number of
\* queued orders.
C3_IndexConsistency ==
    /\ DOMAIN order_map = {orders[RefAt(pos)].order_id : pos \in QueuePositions}
    /\ \A p1, p2 \in QueuePositions :
           orders[RefAt(p1)].order_id = orders[RefAt(p2)].order_id => p1 = p2
    /\ get_total_orders = Cardinality(QueuePositions)

\* A call traded, released a resting order it filled, and orders remain.
C3_Witness ==
    /\ last.trades # <<>>
    /\ \E id \in DOMAIN last.released : id # last.order_id
    /\ get_total_orders >= 1

\* ------------------------------------------------------------------- C4
\* C4: every indexed order is a LIMIT order, NEW or PARTIALLY_FILLED, with
\* remaining quantity, queued exactly once: at the level keyed by its price
\* on the ladder of its side.
C4_IndexedOrdersLive ==
    \A id \in DOMAIN order_map :
        LET o == orders[order_map[id]]
            side_ladder == IF o.side = "BUY" THEN "bids" ELSE "asks"
            held == {pos \in QueuePositions : RefAt(pos) = order_map[id]}
        IN  /\ o.order_id = id
            /\ o.type = "LIMIT"
            /\ o.status \in {"NEW", "PARTIALLY_FILLED"}
            /\ o.quantity - o.filled_qty > 0
            /\ Cardinality(held) = 1
            /\ \A pos \in held : pos[1] = side_ladder /\ pos[2] = o.price
            /\ LadderOf(side_ladder)[o.price].price = o.price

\* The index holds a partially filled order and a new one of the other side.
C4_Witness ==
    \E i, j \in DOMAIN order_map :
        /\ orders[order_map[i]].status = "PARTIALLY_FILLED"
        /\ orders[order_map[j]].status = "NEW"
        /\ orders[order_map[i]].side # orders[order_map[j]].side

\* ------------------------------------------------------------------- C5
\* C5: no level of either ladder has an empty queue.
C5_NoEmptyLevel ==
    \A k \in LevelKeys : Len(LevelAt(k).orders) > 0

\* The call took the last order out of a level (by a fill or a cancel): the
\* level is gone while the book still holds other levels.
C5_Witness ==
    /\ LevelKeys # {}
    /\ \E id \in DOMAIN last.released :
           /\ last.released[id].type = "LIMIT"
           /\ id # last.order_id \/ last.op = "cancel_order"
           /\ <<IF last.released[id].side = "BUY" THEN "bids" ELSE "asks",
                last.released[id].price>> \notin LevelKeys

\* ------------------------------------------------------------------- C6
\* The call counted each of its trades once.
Counted(c) ==
    /\ c.e.total_volume
           = total_volume + SeqSum([i \in DOMAIN c.trades |-> c.trades[i].quantity])
    /\ c.e.total_trades = total_trades + Len(c.trades)

\* C6: total_volume is the sum of the quantities of the trades produced
\* since the last clear and total_trades their number; from every
\* reachable state every add call counts each trade it produces once; a
\* cancel_order call changes neither counter.
C6_CounterAccounting ==
    /\ [](/\ total_volume = SeqSum([i \in DOMAIN trade_log |-> trade_log[i].quantity])
          /\ total_trades = Len(trade_log))
    /\ [](\A c \in AddCalls : Counted(c))
    /\ [][last'.op = "cancel_order"
            => total_volume' = total_volume /\ total_trades' = total_trades]_vars

\* Two trades were counted and then an order was cancelled.
C6_Witness ==
    /\ Len(trade_log) >= 2
    /\ total_volume >= 2
    /\ last.op = "cancel_order"
    /\ last.ret_ok

\* ------------------------------------------------------------------- C7
\* The value of an order after a step: on the book, or as the step released it.
AfterOf(after, l, id) == IF id \in DOMAIN after THEN after[id] ELSE l.released[id]

FilledBefore(before, id) == IF id \in DOMAIN before THEN before[id].filled_qty ELSE 0

\* The quantity the first n trades of a call gave to the order id.
TradedBy(trades, id, n) ==
    SeqSum([i \in 1 .. n |-> IF TradeNames(trades[i], id) THEN trades[i].quantity ELSE 0])

\* The resting side of a trade of the incoming order inc.
RestingOf(t, inc) == IF t.buy_order_id = inc THEN t.sell_order_id ELSE t.buy_order_id

IsMinOf(q, a, b) == (q = a \/ q = b) /\ q <= a /\ q <= b

ConservedStep(before, after, l) ==
    /\ \A id \in DOMAIN before \cup DOMAIN after \cup DOMAIN l.released :
           AfterOf(after, l, id).filled_qty - FilledBefore(before, id)
               = TradedBy(l.trades, id, Len(l.trades))
    /\ \A k \in DOMAIN l.trades :
           LET t == l.trades[k]
               inc == l.order_id
               rest == RestingOf(t, inc)
           IN  /\ TradeNames(t, inc)
               /\ rest # inc
               /\ rest \in DOMAIN before
               /\ IsMinOf(t.quantity,
                          AfterOf(after, l, inc).quantity
                              - TradedBy(l.trades, inc, k - 1),
                          before[rest].quantity - before[rest].filled_qty
                              - TradedBy(l.trades, rest, k - 1))

\* C7: every trade of a call has the quantity min(incoming remaining,
\* resting remaining) as they stand when it is made, and over the call each
\* order's filled_qty grows by exactly the quantities of the trades that
\* name it: by q for the incoming and the resting order of a trade, by
\* nothing for any other order; so it is of every add call made from a
\* reachable state.
C7_QuantityConservation ==
    /\ [][ConservedStep(orders, orders', last')]_vars
    /\ [](\A c \in AddCalls : c.order_id # 0 => ConservedStep(orders, c.e.orders, c))

\* A call made two trades and left the second resting order partially filled.
C7_Witness ==
    /\ Len(last.trades) >= 2
    /\ \E id \in DOMAIN orders :
           /\ orders[id].status = "PARTIALLY_FILLED"
           /\ id # last.order_id
           /\ TradeNames(last.trades[Len(last.trades)], id)

\* ------------------------------------------------------------------- C8
PriceStep(before_bids, before_asks, before_orders, after, l) ==
    LET inc == l.order_id
        name == opposite_ladder(AfterOf(after, l, inc).side)
        opp == IF name = "asks" THEN before_asks ELSE before_bids
    IN  /\ \A k \in DOMAIN l.trades :
               LET t == l.trades[k]
                   rest == RestingOf(t, inc)
               IN  /\ rest \in DOMAIN before_orders
                   /\ t.price \in DOMAIN opp
                   /\ opp[t.price].price = t.price
                   /\ \E i \in DOMAIN opp[t.price].orders : opp[t.price].orders[i] = rest
        /\ l.trades # <<>> => l.trades[1].price = ladder_begin(opp, name)

\* C8: every trade executes at the price of the level the resting order was
\* queued at, whatever the price of the incoming order; the first trade of
\* a call is at the touch.
C8_ExecutionPrice == [][PriceStep(bids, asks, orders, orders', last')]_vars

\* A limit order traded at a price that is not its own limit.
C8_Witness ==
    /\ last.trades # <<>>
    /\ order_of(last.order_id).type = "LIMIT"
    /\ order_of(last.order_id).price # last.trades[1].price

\* ------------------------------------------------------------------- C9
\* C9: in every trade buy_order_id is the BUY order and sell_order_id the
\* SELL order, the two differ, and one of them is the incoming order.
C9_TradeSides ==
    \A k \in DOMAIN last.trades :
        LET t == last.trades[k]
        IN  /\ order_of(t.buy_order_id).side = "BUY"
            /\ order_of(t.sell_order_id).side = "SELL"
            /\ t.buy_order_id # t.sell_order_id
            /\ last.order_id \in {t.buy_order_id, t.sell_order_id}

\* An incoming SELL traded: the buyer named is the resting order.
C9_Witness ==
    /\ last.trades # <<>>
    /\ order_of(last.order_id).side = "SELL"
    /\ last.trades[1].sell_order_id = last.order_id
    /\ last.trades[1].buy_order_id # last.order_id

\* ------------------------------------------------------------------ C10
KeptOf(queue, ids) == SelectSeq(queue, LAMBDA r : r \in ids)

SeqRange(queue) == {queue[i] : i \in DOMAIN queue}

TimePriorityStep ==
    LET filled_after(id) == AfterOf(orders', last', id).filled_qty
        remaining_after(id) == AfterOf(orders', last', id).quantity - filled_after(id)
        ladder_after(name) == IF name = "bids" THEN bids' ELSE asks'
    IN  \* a later order of a level is filled only when every earlier one is used up
        /\ \A k \in LevelKeys : \A i, j \in DOMAIN LevelAt(k).orders :
               (i < j /\ filled_after(LevelAt(k).orders[j])
                           > orders[LevelAt(k).orders[j]].filled_qty)
                   => remaining_after(LevelAt(k).orders[i]) = 0
        \* a resting order filled in part is the front of its level afterwards
        /\ \A pos \in QueuePositions :
               (/\ filled_after(RefAt(pos)) > orders[RefAt(pos)].filled_qty
                /\ remaining_after(RefAt(pos)) > 0)
                   => /\ pos[2] \in DOMAIN ladder_after(pos[1])
                      /\ Head(ladder_after(pos[1])[pos[2]].orders) = RefAt(pos)
        \* the orders that stay at a level keep their relative order
        /\ \A k \in LevelKeys :
               k[2] \in DOMAIN ladder_after(k[1]) =>
                   KeptOf(ladder_after(k[1])[k[2]].orders, SeqRange(LevelAt(k).orders))
                       = KeptOf(LevelAt(k).orders,
                                SeqRange(ladder_after(k[1])[k[2]].orders))
        \* a residual that comes to rest is appended behind the orders of its level
        /\ (last'.op = "add_order" /\ last'.order_id \in DOMAIN order_map') =>
               LET o == orders'[order_map'[last'.order_id]]
                   name == IF o.side = "BUY" THEN "bids" ELSE "asks"
               IN  \E p \in DOMAIN ladder_after(name) :
                       LET queue == ladder_after(name)[p].orders
                       IN  /\ queue # <<>>
                           /\ queue[Len(queue)] = last'.order_id
                           /\ SubSeq(queue, 1, Len(queue) - 1)
                                  = IF p \in DOMAIN LadderOf(name)
                                    THEN LadderOf(name)[p].orders
                                    ELSE <<>>

\* C10: within a level resting orders are matched in order of insertion: a
\* later order gets no fill while an earlier one has remaining quantity, a
\* partially filled order stays at the front, the others keep their order,
\* and a new residual is appended at the back.
C10_TimePriority == [][TimePriorityStep]_vars

\* A trade filled the front order of a level in part; the order behind it,
\* inserted later at the same price, is untouched.
C10_Witness ==
    /\ last.trades # <<>>
    /\ \E k \in LevelKeys :
           /\ Len(LevelAt(k).orders) >= 2
           /\ orders[LevelAt(k).orders[1]].status = "PARTIALLY_FILLED"
           /\ TradeNames(last.trades[Len(last.trades)], LevelAt(k).orders[1])
           /\ orders[LevelAt(k).orders[2]].status = "NEW"
           /\ LevelAt(k).orders[1] < LevelAt(k).orders[2]

\* ------------------------------------------------------------------ C11
ExecutionOrderStep(before_bids, before_asks, before_orders, before_next_trade_id,
                   after, l) ==
    LET n == Len(l.trades)
        buy == AfterOf(after, l, l.order_id).side = "BUY"
        opp == IF buy THEN before_asks ELSE before_bids
        better(q, p) == IF buy THEN double_lt(q, p) ELSE double_gt(q, p)
        level_qty(q) ==
            SeqSum([i \in DOMAIN opp[q].orders |->
                       before_orders[opp[q].orders[i]].quantity
                         - before_orders[opp[q].orders[i]].filled_qty])
        traded_at(q, k) ==
            SeqSum([i \in 1 .. k |->
                       IF l.trades[i].price = q THEN l.trades[i].quantity ELSE 0])
    IN  n > 0 =>
          /\ \A k \in 1 .. n : l.trades[k].trade_id = before_next_trade_id + k - 1
          /\ \A k \in 1 .. (n - 1) :
                 ~better(l.trades[k + 1].price, l.trades[k].price)
          /\ \A k \in 1 .. n : \A q \in DOMAIN opp :
                 better(q, l.trades[k].price) => traded_at(q, k - 1) = level_qty(q)

\* C11: the trades of one call are listed with increasing trade ids, at
\* prices that never get better for the resting side as the list goes on
\* (non-decreasing for an incoming BUY, non-increasing for an incoming
\* SELL), and a trade is made at a level only when every better-priced
\* opposite level has been traded out in full by the earlier trades.
C11_ExecutionOrder ==
    [][ExecutionOrderStep(bids, asks, orders, next_trade_id, orders', last')]_vars

\* A call traded at two prices.
C11_Witness ==
    /\ Len(last.trades) >= 2
    /\ last.trades[1].price # last.trades[2].price

\* ------------------------------------------------------------------ C12
IssuanceStep ==
    /\ IF last'.op \in {"add_order", "add_market_order"} /\ last'.order_id # 0
       THEN /\ last'.order_id = next_order_id
            /\ next_order_id' = next_order_id + 1
       ELSE next_order_id' = next_order_id
    /\ \A k \in DOMAIN last'.trades :
           last'.trades[k].trade_id = next_trade_id + k - 1
    /\ next_trade_id' = next_trade_id + Len(last'.trades)

\* The add call took the next order id when it was accepted and the next
\* trade ids for its trades, and moved the issuers by no more than that.
Issued(c) ==
    /\ IF c.order_id # 0
       THEN c.order_id = next_order_id /\ c.e.next_order_id = next_order_id + 1
       ELSE c.e.next_order_id = next_order_id
    /\ \A k \in DOMAIN c.trades : c.trades[k].trade_id = next_trade_id + k - 1
    /\ c.e.next_trade_id = next_trade_id + Len(c.trades)

\* C12: the first order id and the first trade id are 1, every accepted
\* order (limit or market) takes the next order id and every trade the next
\* trade id, in every call of the behaviour and in every add call made
\* from a reachable state, and no other step, clear included, moves either
\* issuer: ids are strictly increasing over the engine's lifetime, never
\* reused, never 0.
C12_MonotonicIssuance ==
    /\ next_order_id = 1 /\ next_trade_id = 1
    /\ [][IssuanceStep]_vars
    /\ [](\A c \in AddCalls : Issued(c))
    /\ [](/\ \A id \in DOMAIN orders : 1 <= id /\ id < next_order_id
          /\ \A k \in DOMAIN trade_log :
                 1 <= trade_log[k].trade_id /\ trade_log[k].trade_id < next_trade_id)

\* An order was accepted with id 3 after a clear that followed a trade.
C12_Witness ==
    /\ last.op = "add_order"
    /\ last.order_id = 3
    /\ next_trade_id >= 2
    /\ total_trades = 0

\* ------------------------------------------------------------------ C13
\* C13: in every reachable state, add_order with quantity 0, or a negative
\* price, or type LIMIT and a price <= 0, returns 0, and add_market_order
\* with quantity 0 returns the empty list; neither produces a trade nor
\* changes the ladders, the index, total_trades, total_volume,
\* next_order_id or next_trade_id.
C13_RejectionChangesNothing ==
    /\ \A price \in PriceInputs, quantity \in QtyInputs, side \in Sides,
          type \in OrderTypes :
           (quantity = 0 \/ double_lt(price, 0)
                \/ (type = "LIMIT" /\ double_le(price, 0)))
               => \E r \in {add_order(Engine, price, quantity, side, type)} :
                      /\ r.ret = 0
                      /\ r.trades = <<>>
                      /\ r.err = "none"
                      /\ r.e = Engine
    /\ \A side \in Sides :
           \E r \in {add_market_order(Engine, 0, side)} :
               /\ r.ret = <<>>
               /\ r.trades = <<>>
               /\ r.err = "none"
               /\ r.e = Engine

\* An add was rejected on a book that holds orders and has traded.
C13_Witness ==
    /\ last.op \in {"add_order", "add_market_order"}
    /\ last.order_id = 0
    /\ last.ret_id = 0
    /\ last.trades = <<>>
    /\ order_map # <<>>
    /\ total_trades > 0

\* ------------------------------------------------------------------ C14
QueuedAt(id) == {pos \in QueuePositions : RefAt(pos) = id}

\* C14: after an accepted add, a LIMIT order is in the index exactly when
\* it has quantity left, and then it is queued once, at the level of its
\* own price on the ladder of its own side; a MARKET order is neither in
\* the index nor in any level, and no order of the book is a MARKET order.
C14_ResidualRule ==
    /\ (last.op \in {"add_order", "add_market_order"} /\ last.order_id # 0
            /\ last.err = "none")
           => LET id == last.order_id
                  o == order_of(id)
              IN  IF o.type = "LIMIT"
                  THEN /\ (id \in DOMAIN order_map) <=> (get_remaining_qty(o) > 0)
                       /\ IF get_remaining_qty(o) > 0
                          THEN /\ o.price \in DOMAIN LadderOf(own_ladder(o.side))
                               /\ QueuedAt(id) =
                                      {<<own_ladder(o.side), o.price,
                                         Len(LadderOf(own_ladder(o.side))[o.price].orders)>>}
                          ELSE QueuedAt(id) = {}
                  ELSE /\ id \notin DOMAIN order_map
                       /\ QueuedAt(id) = {}
    /\ \A id \in DOMAIN orders : orders[id].type = "LIMIT"

\* A limit order rested its residual after trading, and (second disjunct)
\* a market order had its residual discarded after trading.
C14_Witness ==
    /\ last.order_id # 0
    /\ last.trades # <<>>
    /\ \/ /\ last.op = "add_order"
          /\ last.order_id \in DOMAIN order_map
          /\ orders[last.order_id].status = "PARTIALLY_FILLED"
       \/ /\ last.op = "add_market_order"
          /\ last.order_id \in DOMAIN last.released
          /\ last.released[last.order_id].status = "PARTIALLY_FILLED"

\* ------------------------------------------------------------------ C15
EngineQueued(e, id) ==
    \E name \in {"bids", "asks"} : \E p \in DOMAIN e[name] :
        \E i \in DOMAIN e[name][p].orders : e[name][p].orders[i] = id

\* C15: in every reachable state and for every id, cancel_order(id)
\* returns true exactly when id is in the index; then the order is gone
\* from the index and from its level and a second cancel of it returns
\* false; otherwise nothing changes.  In particular it returns false for
\* id 0 and for the id of an order that a fill, the market residual rule,
\* an earlier cancel or clear took off the book.
C15_CancelResult ==
    /\ \A id \in IdInputs :
           \E r \in {cancel_order(Engine, id)} :
               /\ r.ret = (id \in DOMAIN order_map)
               /\ r.err = "none"
               /\ IF r.ret
                  THEN /\ id \notin DOMAIN r.e.order_map
                       /\ ~EngineQueued(r.e, id)
                       /\ id \in DOMAIN r.released
                       /\ r.released[id].status = "CANCELLED"
                       /\ ~cancel_order(r.e, id).ret
                  ELSE r.e = Engine
    /\ \A id \in {0} \cup DOMAIN last.released : ~cancel_order(Engine, id).ret

\* A cancel succeeded and left other orders on the book.
C15_Witness ==
    /\ last.op = "cancel_order"
    /\ last.ret_ok
    /\ last.released[last.order_id].status = "CANCELLED"
    /\ order_map # <<>>

\* ------------------------------------------------------------------ C16
NonCrossing(price, side) ==
    IF side = "BUY" THEN \A a \in DOMAIN asks : ~double_ge(price, a)
    ELSE \A b \in DOMAIN bids : ~double_le(price, b)

\* C16: in every reachable state, add_order of a valid limit order that
\* crosses no opposite level, followed at once by cancel_order of the id it
\* returned, gives back the same ladders, index, total_trades and
\* total_volume (and the same next_trade_id); next_order_id is one higher.
C16_AddCancelRoundTrip ==
    \A price \in 1 .. MaxPrice, quantity \in 1 .. MaxQty, side \in Sides :
        NonCrossing(price, side)
            => \E a \in {add_order(Engine, price, quantity, side, "LIMIT")} :
                   /\ a.ret = next_order_id
                   /\ a.trades = <<>>
                   /\ a.ret \in DOMAIN a.e.order_map
                   /\ \E c \in {cancel_order(a.e, a.ret)} :
                          /\ c.ret
                          /\ c.e = [Engine EXCEPT !.next_order_id = next_order_id + 1]

\* The order added last was cancelled untouched, out of a level that
\* other orders still queue at.
C16_Witness ==
    /\ last.op = "cancel_order"
    /\ last.ret_ok
    /\ last.order_id = next_order_id - 1
    /\ last.released[last.order_id].filled_qty = 0
    /\ LET o == last.released[last.order_id]
       IN  o.price \in DOMAIN LadderOf(own_ladder(o.side))

\* ------------------------------------------------------------------ C17
OtherSide(side) == IF side = "BUY" THEN "SELL" ELSE "BUY"

\* The order `id` as the two calls with outcomes a and then b left it.
FinalIn(a, b, id) ==
    IF id \in DOMAIN b.e.orders THEN b.e.orders[id]
    ELSE IF id \in DOMAIN b.released THEN b.released[id]
    ELSE a.released[id]

PairConsumedIn(a, b, price) ==
    /\ a.ret # 0
    /\ b.ret # 0
    /\ FinalIn(a, b, a.ret).status = "FILLED"
    /\ FinalIn(a, b, b.ret).status = "FILLED"
    /\ a.ret \notin DOMAIN b.e.order_map
    /\ b.ret \notin DOMAIN b.e.order_map
    /\ price \notin DOMAIN b.e.bids
    /\ price \notin DOMAIN b.e.asks

\* add_order of a limit order (price, quantity, side) and then of the
\* opposite limit order of the same price and quantity, from the current
\* state, consumes both.
PairConsumed(price, quantity, side) ==
    \E a \in {add_order(Engine, price, quantity, side, "LIMIT")} :
        \E b \in {add_order(a.e, price, quantity, OtherSide(side), "LIMIT")} :
            PairConsumedIn(a, b, price)

\* The two orders trade with each other, once, for the whole quantity.
PairTradesTogether(price, quantity, side) ==
    \E a \in {add_order(Engine, price, quantity, side, "LIMIT")} :
        \E b \in {add_order(a.e, price, quantity, OtherSide(side), "LIMIT")} :
            /\ a.trades = <<>>
            /\ Len(b.trades) = 1
            /\ b.trades[1].price = price
            /\ b.trades[1].quantity = quantity
            /\ {b.trades[1].buy_order_id, b.trades[1].sell_order_id} = {a.ret, b.ret}
            /\ b.e = [Engine EXCEPT !.next_order_id = next_order_id + 2,
                                    !.next_trade_id = next_trade_id + 1,
                                    !.total_trades = total_trades + 1,
                                    !.total_volume = total_volume + quantity]

\* Every bid level is priced below the price and every ask level above.
InsideSpread(price) ==
    /\ \A b \in DOMAIN bids : double_lt(b, price)
    /\ \A a \in DOMAIN asks : double_lt(price, a)

\* C17 as the claim states it: from every reachable state, two opposite
\* limit orders of the same price and quantity, added one after the other
\* in either order, are both FILLED, neither is in the index, and no level
\* is left at the price on either side.
C17_PairConsumedAnywhere ==
    \A price \in 1 .. MaxPrice, quantity \in 1 .. MaxQty, side \in Sides :
        PairConsumed(price, quantity, side)

\* C17, amended: from every reachable state in which every bid level is
\* priced below p and every ask level above p, two opposite limit orders
\* of price p and the same quantity, added one after the other in either
\* order, trade with each other for the whole quantity: both are FILLED,
\* neither is in the index, no level is left at p on either side, and the
\* rest of the book is as it was.
C17_PairConsumedInsideSpread ==
    \A price \in 1 .. MaxPrice, quantity \in 1 .. MaxQty, side \in Sides :
        InsideSpread(price)
            => /\ PairConsumed(price, quantity, side)
               /\ PairTradesTogether(price, quantity, side)

\* The last two orders accepted, of one price and quantity, traded with
\* each other in the last call, inside the spread of a book that rests
\* other orders.
C17_Witness ==
    /\ last.op = "add_order"
    /\ Len(last.trades) = 1
    /\ order_map # <<>>
    /\ InsideSpread(last.trades[1].price)
    /\ LET id == last.order_id
           t == last.trades[1]
       IN  /\ {t.buy_order_id, t.sell_order_id} = {id - 1, id}
           /\ {id - 1, id} \subseteq DOMAIN last.released
           /\ last.released[id].status = "FILLED"
           /\ last.released[id - 1].status = "FILLED"
           /\ last.released[id].price = last.released[id - 1].price
           /\ last.released[id].quantity = t.quantity
           /\ last.released[id - 1].quantity = t.quantity

\* ------------------------------------------------------------------ C18
ClearStep ==
    last'.op = "clear"
        => /\ bids' = <<>>
           /\ asks' = <<>>
           /\ order_map' = <<>>
           /\ total_trades' = 0
           /\ total_volume' = 0
           /\ next_order_id' = next_order_id
           /\ next_trade_id' = next_trade_id

\* The ids known to have been issued: the orders of the book, the orders
\* the last call released, the trades since the last clear.
KnownOrderIds == (DOMAIN orders) \cup (DOMAIN last.released)

KnownTradeIds == {trade_log[k].trade_id : k \in DOMAIN trade_log}

\* clear() from the current state, then a resting limit order and an
\* opposite order that trades with it: the ids of the two orders and of
\* the trade are above every id known before the clear.
FreshIdsAfterClear ==
    \E c \in {clear(Engine)} :
        \E a \in {add_order(c.e, 1, 1, "BUY", "LIMIT")} :
            \E b \in {add_market_order(a.e, 1, "SELL")} :
                /\ c.e = [Engine EXCEPT !.bids = <<>>, !.asks = <<>>,
                                        !.order_map = <<>>, !.orders = <<>>,
                                        !.total_trades = 0, !.total_volume = 0]
                /\ a.ret = next_order_id
                /\ b.id = next_order_id + 1
                /\ \A id \in KnownOrderIds : id < a.ret
                /\ Len(b.ret) = 1
                /\ b.ret[1].trade_id = next_trade_id
                /\ \A t \in KnownTradeIds : t < b.ret[1].trade_id

\* C18: a clear step leaves both ladders and the index empty and
\* total_trades and total_volume 0, and leaves next_order_id and
\* next_trade_id as they were; and from every reachable state the first
\* order and the first trade after clear() get ids above every id issued
\* before it.
C18_ClearFrame ==
    /\ [][ClearStep]_vars
    /\ []FreshIdsAfterClear

\* clear() was called on a book that held orders, after orders and trades
\* had been issued ids.
C18_Witness ==
    /\ last.op = "clear"
    /\ last.released # <<>>
    /\ next_order_id > 2
    /\ next_trade_id > 1
    /\ total_trades = 0
    /\ total_volume = 0

\* ------------------------------------------------------------------ C19
Terminal(o) == o.status \in {"FILLED", "CANCELLED"}

Transitions ==
    {<<"NEW", "PARTIALLY_FILLED">>, <<"NEW", "FILLED">>, <<"NEW", "CANCELLED">>,
     <<"PARTIALLY_FILLED", "FILLED">>, <<"PARTIALLY_FILLED", "CANCELLED">>}

\* From the order value b to the order value a: the status stays or moves
\* along a transition, and filled_qty does not go down.
Moves(b, a) ==
    /\ b.status = a.status \/ <<b.status, a.status>> \in Transitions
    /\ b.filled_qty <= a.filled_qty
    /\ Terminal(b) => a = b

\* A call moves every order of the book, and the order it made (NEW, no
\* fill, at its construction), along the transitions.
TransitionStep ==
    /\ \A id \in DOMAIN orders : Moves(orders[id], AfterOf(orders', last', id))
    /\ (last'.op \in {"add_order", "add_market_order"} /\ last'.order_id # 0
            /\ last'.err = "none")
           => LET a == AfterOf(orders', last', last'.order_id)
              IN  Moves([a EXCEPT !.status = "NEW", !.filled_qty = 0], a)

\* The orders the engine holds or has just released, terminal ones among them.
VisibleOrders ==
    {orders[id] : id \in DOMAIN orders}
        \cup {last.released[id] : id \in DOMAIN last.released}

\* C19: every call moves every order only along NEW->PARTIALLY_FILLED,
\* NEW->FILLED, NEW->CANCELLED, PARTIALLY_FILLED->FILLED,
\* PARTIALLY_FILLED->CANCELLED, never lowers filled_qty, and leaves a
\* FILLED or CANCELLED order exactly as it is; and on every order the
\* engine holds or has just released, Order::cancel and Order::fill of any
\* quantity move it the same way.
C19_StatusTransitions ==
    /\ [][TransitionStep]_vars
    /\ [](\A o \in VisibleOrders :
              /\ Moves(o, cancel(o))
              /\ \A qty \in QtyInputs : Moves(o, fill(o, qty).order))

\* A call filled a resting order that an earlier call had partially
\* filled, and an earlier trade is on the log.
C19_Witness ==
    /\ last.op \in {"add_order", "add_market_order"}
    /\ Len(trade_log) >= 2
    /\ \E id \in DOMAIN last.released :
           /\ id # last.order_id
           /\ last.released[id].status = "FILLED"
           /\ \E k \in DOMAIN trade_log :
                  /\ TradeNames(trade_log[k], id)
                  /\ trade_log[k].quantity < last.released[id].quantity
                  /\ k <= Len(trade_log) - Len(last.trades)

\* ------------------------------------------------------------------ C20
\* C20: on every order whose status is FILLED or CANCELLED, fill(qty)
\* with qty > 0 fails with std::logic_error (IllegalState) and leaves the
\* order unchanged.
C20_TerminalFillIsIllegalState ==
    \A o \in VisibleOrders :
        Terminal(o)
            => \A qty \in 1 .. MaxQty :
                   /\ fill(o, qty).err = "logic_error"
                   /\ fill(o, qty).order = o

\* What the code does there: the over-fill check comes first, so the call
\* fails with std::invalid_argument when qty exceeds the remaining quantity
\* (always, on a FILLED order) and with std::logic_error otherwise; the
\* order is unchanged either way.
TerminalFillFails ==
    \A o \in VisibleOrders :
        Terminal(o)
            => \A qty \in 1 .. MaxQty :
                   /\ fill(o, qty).err =
                          IF qty > get_remaining_qty(o) THEN "invalid_argument"
                          ELSE "logic_error"
                   /\ fill(o, qty).order = o

\* ------------------------------------------------------------------ C21
\* C21: no call lets an exception of the Order constructor or of
\* Order::fill out: the last call ended without one, from every reachable
\* state add_order and add_market_order with any arguments end without
\* one, and filled_qty <= quantity for every order the engine holds or has
\* just released.
C21_NoIllegalFill ==
    /\ last.err = "none"
    /\ \A o \in VisibleOrders : 0 <= o.filled_qty /\ o.filled_qty <= o.quantity
    /\ \A price \in PriceInputs, quantity \in QtyInputs, side \in Sides,
          type \in OrderTypes :
           \E r \in {add_order(Engine, price, quantity, side, type)} :
               /\ r.err = "none"
               /\ \A id \in DOMAIN r.e.orders :
                      r.e.orders[id].filled_qty <= r.e.orders[id].quantity
               /\ \A id \in DOMAIN r.released :
                      r.released[id].filled_qty <= r.released[id].quantity
    /\ \A quantity \in QtyInputs, side \in Sides :
           add_market_order(Engine, quantity, side).err = "none"

\* A call made two fills of the incoming order that together used it up
\* exactly, the second one against an order larger than what was left.
C21_Witness ==
    /\ last.err = "none"
    /\ Len(last.trades) = 2
    /\ last.order_id \in DOMAIN last.released
    /\ last.released[last.order_id].status = "FILLED"
    /\ \E id \in DOMAIN orders :
           /\ TradeNames(last.trades[2], id)
           /\ orders[id].status = "PARTIALLY_FILLED"

\* ------------------------------------------------------------------ C25
\* The reference values, from the orders of the index and their own side,
\* price and quantities (not from the ladders' keys and aggregates).
RestingIds(side) == {id \in DOMAIN order_map : orders[order_map[id]].side = side}

RestingPrices(side) == {orders[order_map[id]].price : id \in RestingIds(side)}

Better(side, q, p) == IF side = "BUY" THEN double_gt(q, p) ELSE double_lt(q, p)

\* The best prices of a side: those that no resting order of the side betters.
BestPrices(side) ==
    {p \in RestingPrices(side) : \A q \in RestingPrices(side) : ~Better(side, q, p)}

\* The optional is the best price of the side, absent when nothing rests.
IsRefBest(side, opt) ==
    IF RestingPrices(side) = {} THEN opt = nullopt
    ELSE opt.has_value /\ opt.value \in BestPrices(side)

\* The remaining quantity at the prices that exactly k resting prices better.
RefRemainingAt(side, k) ==
    SeqSum([id \in 1 .. (next_order_id - 1) |->
               IF /\ id \in RestingIds(side)
                  /\ Cardinality({q \in RestingPrices(side) :
                                     Better(side, q, orders[order_map[id]].price)}) = k
               THEN get_remaining_qty(orders[order_map[id]])
               ELSE 0])

RefDepth(side, k) ==
    IF k >= Cardinality(RestingPrices(side)) THEN 0
    ELSE RefRemainingAt(side, k)

IsRefSpread(opt) ==
    IF RestingIds("BUY") = {} \/ RestingIds("SELL") = {} THEN opt = nullopt
    ELSE /\ opt.has_value
         /\ \E a \in BestPrices("SELL"), b \in BestPrices("BUY") :
                opt.value = double_sub(a, b)

Optional(l) == [has_value |-> l.ret_ok, value |-> l.ret_id]

ReadStep ==
    /\ last'.op = "get_best_bid" => IsRefBest("BUY", Optional(last'))
    /\ last'.op = "get_best_ask" => IsRefBest("SELL", Optional(last'))
    /\ last'.op = "get_spread" => IsRefSpread(Optional(last'))
    /\ last'.op = "get_bid_depth_at_level"
           => last'.ret_id = RefDepth("BUY", last'.level)
    /\ last'.op = "get_ask_depth_at_level"
           => last'.ret_id = RefDepth("SELL", last'.level)
    /\ last'.op = "get_total_orders" => last'.ret_id = Cardinality(DOMAIN order_map)
    /\ last'.op \in {"get_best_bid", "get_best_ask", "get_spread",
                     "get_bid_depth_at_level", "get_ask_depth_at_level",
                     "get_total_orders"}
           => UNCHANGED <<bids, asks, order_map, orders, next_order_id,
                          next_trade_id, total_trades, total_volume>>

\* C25: every market-data read returns the reference value of the book it
\* is made on and changes nothing: best_bid the highest price with a
\* resting BUY order, best_ask the lowest with a resting SELL order, absent
\* exactly when the side is empty; spread absent when a side is empty and
\* best_ask - best_bid otherwise; depth at level k the sum of the remaining
\* quantities of the orders at the k-th best price of the side, 0 when k is
\* not below the number of prices; total_orders the size of the index.
C25_MarketDataReads == [][ReadStep]_vars

\* A depth read of the second-best bid level that found quantity there,
\* with asks resting too.
C25_Witness ==
    /\ last.op = "get_bid_depth_at_level"
    /\ last.level = 1
    /\ last.ret_id > 0
    /\ DOMAIN asks # {}

\* ------------------------------------------------------------------ C26
\* The quantity of the orders that rest on the ladder at prices the order
\* can trade at: all of them for a MARKET order, those priced no worse than
\* its limit for a LIMIT order.
CrossableQuantity(ladder, heap, order) ==
    SeqSum([r \in 1 .. (MaxOrders + 1) |->
               IF r \in queued_refs(ladder)
                  /\ (order.type = "MARKET"
                        \/ IF order.side = "BUY"
                           THEN double_le(heap[r].price, order.price)
                           ELSE double_ge(heap[r].price, order.price))
               THEN get_remaining_qty(heap[r])
               ELSE 0])

MaximalStep ==
    (last'.op \in {"add_order", "add_market_order"} /\ last'.order_id # 0
        /\ last'.err = "none")
        => LET o == AfterOf(orders', last', last'.order_id)
               before == IF o.side = "BUY" THEN asks ELSE bids
               after == IF o.side = "BUY" THEN asks' ELSE bids'
               available == CrossableQuantity(before, orders, o)
               traded == SeqSum([k \in DOMAIN last'.trades |->
                                    last'.trades[k].quantity])
           IN  /\ traded = Min(o.quantity, available)
               /\ o.filled_qty = traded
               /\ \/ o.filled_qty = o.quantity
                  \/ CrossableQuantity(after, orders', o) = 0
               /\ (o.type = "MARKET" /\ o.quantity >= available) => after = <<>>

\* C26: when add_order or add_market_order returns, the incoming order
\* has traded exactly min(its quantity, the quantity that rested on the
\* opposite side at prices it can trade at: every price for a market
\* order, prices not worse than its limit for a limit order); so it is
\* fully filled or no opposite level it can trade at is left, and a market
\* order at least as large as the opposite side leaves that side empty.
C26_MaximalMatching == [][MaximalStep]_vars

\* A market order as large as the opposite side emptied its two levels,
\* and (second disjunct) a limit order stopped at its limit, unfilled in
\* part, with a worse opposite level left.
C26_WitnessMarket ==
    /\ last.op = "add_market_order"
    /\ Len(last.trades) = 2
    /\ last.trades[1].price # last.trades[2].price
    /\ bids = <<>> /\ asks = <<>>

C26_WitnessLimit ==
    /\ last.op = "add_order"
    /\ last.order_id \in DOMAIN orders
    /\ orders[last.order_id].status = "PARTIALLY_FILLED"
    /\ DOMAIN bids # {} /\ DOMAIN asks # {}

C26_Witness == C26_WitnessMarket \/ C26_WitnessLimit

\* ------------------------------------------------------------------ C27
CancelFrameStep ==
    (last'.op = "cancel_order" /\ last'.ret_ok)
        => LET id == last'.order_id
               o == orders[id]
               name == own_ladder(o.side)
               own == LadderOf(name)
               own_after == IF name = "bids" THEN bids' ELSE asks'
               held == {q \in DOMAIN own : id \in SeqRange(own[q].orders)}
           IN  /\ order_map' = [k \in (DOMAIN order_map) \ {id} |-> order_map[k]]
               /\ orders' = [r \in (DOMAIN orders) \ {id} |-> orders[r]]
               /\ last'.released = (id :> [o EXCEPT !.status = "CANCELLED"])
               /\ IF name = "bids" THEN asks' = asks ELSE bids' = bids
               /\ Cardinality(held) = 1
               /\ \A q \in (DOMAIN own) \ held :
                      q \in DOMAIN own_after /\ own_after[q] = own[q]
               /\ DOMAIN own_after \subseteq DOMAIN own
               /\ \A p \in held :
                      LET queue_after == SelectSeq(own[p].orders, LAMBDA r : r # id)
                      IN  IF queue_after = <<>> THEN p \notin DOMAIN own_after
                          ELSE /\ p \in DOMAIN own_after
                               /\ own_after[p].orders = queue_after
                               /\ own_after[p].total_quantity
                                      = own[p].total_quantity - get_remaining_qty(o)
               /\ UNCHANGED <<total_trades, total_volume, next_order_id,
                              next_trade_id, trade_log>>

\* C27: a successful cancel_order(id) removes that order and nothing
\* else: every other order keeps its value and its place among the others
\* of its level, the level of the cancelled order loses exactly that
\* order's remaining quantity (and goes when it was the only one), every
\* other level, the other ladder, total_trades, total_volume,
\* next_order_id and next_trade_id stay as they were.
C27_CancelFrame == [][CancelFrameStep]_vars

\* A partially filled order was cancelled from a level that other orders
\* still queue at.
C27_Witness ==
    /\ last.op = "cancel_order"
    /\ last.ret_ok
    /\ last.released[last.order_id].status = "CANCELLED"
    /\ last.released[last.order_id].filled_qty > 0
    /\ \E k \in LevelKeys :
           /\ k[2] = last.released[last.order_id].price
           /\ k[1] = own_ladder(last.released[last.order_id].side)
           /\ LevelAt(k).orders # <<>>

\* ------------------------------------------------------------------ C30
PartialRestingStep ==
    (last'.op \in {"add_order", "add_market_order"} /\ last'.trades # <<>>)
        => LET inc == last'.order_id
               n == Len(last'.trades)
               rest(k) == RestingOf(last'.trades[k], inc)
               used_up(k) ==
                   TradedBy(last'.trades, rest(k), k)
                       = get_remaining_qty(orders[rest(k)])
               name == opposite_ladder(AfterOf(orders', last', inc).side)
               after == IF name = "bids" THEN bids' ELSE asks'
               partial == {id \in (DOMAIN orders) \cap (DOMAIN orders') :
                              /\ orders'[id].filled_qty > orders[id].filled_qty
                              /\ orders'[id].status = "PARTIALLY_FILLED"}
           IN  /\ \A k \in 1 .. (n - 1) : used_up(k)
               /\ \A k \in 1 .. n :
                      used_up(k)
                          => /\ rest(k) \in DOMAIN last'.released
                             /\ last'.released[rest(k)].status = "FILLED"
                             /\ rest(k) \notin DOMAIN order_map'
                             /\ rest(k) \notin DOMAIN orders'
               /\ \A id \in (DOMAIN orders) \ partial :
                      id \in DOMAIN orders' => orders'[id] = orders[id]
               /\ Cardinality(partial) <= 1
               /\ \A id \in partial :
                      /\ id = rest(n)
                      /\ DOMAIN after # {}
                      /\ Head(after[ladder_begin(after, name)].orders) = id

\* C30: among the trades of one add_order or add_market_order call, every
\* trade but possibly the last uses its resting order up, and a resting
\* order used up is FILLED and gone from its level and from the index; the
\* call leaves at most one resting order PARTIALLY_FILLED, the resting
\* order of its last trade, which is then the front order of the best
\* opposite level.
C30_OnePartialRestingFill == [][PartialRestingStep]_vars

\* A call filled one resting order in full and the next one in part.
C30_Witness ==
    /\ Len(last.trades) = 2
    /\ \E id \in DOMAIN last.released :
           id # last.order_id /\ last.released[id].status = "FILLED"
    /\ \E id \in DOMAIN orders :
           /\ id # last.order_id
           /\ TradeNames(last.trades[2], id)
           /\ orders[id].status = "PARTIALLY_FILLED"
           /\ orders[id].filled_qty = last.trades[2].quantity

\* ------------------------------------------------------------------ C29
Saturating(total, delta) == IF delta > total THEN 0 ELSE total - delta

\* C29: on every level of the book and for every old >= new,
\* update_quantity(old, new) lowers total_quantity by old - new with
\* saturating subtraction: the result is 0, never a wrapped value, when
\* old - new exceeds total_quantity.
C29_SaturatingAggregate ==
    \A k \in LevelKeys : \A old_remaining, new_remaining \in QtyInputs :
        old_remaining >= new_remaining
            => update_quantity(LevelAt(k), old_remaining, new_remaining).total_quantity
                   = Saturating(LevelAt(k).total_quantity,
                                old_remaining - new_remaining)

\* What holds of the code: the aggregate moves by exactly old - new, below
\* zero (wrapped) when that exceeds it; and the aggregates of the book are
\* never wrapped after a call.
AggregateArithmetic ==
    /\ \A k \in LevelKeys : \A old_remaining, new_remaining \in QtyInputs :
           update_quantity(LevelAt(k), old_remaining, new_remaining).total_quantity
               = LevelAt(k).total_quantity - old_remaining + new_remaining
    /\ \A k \in LevelKeys : LevelAt(k).total_quantity > 0

\* ------------------------------------------------------------------ C24
\* A thread is between the first and the last access of a mutating call
\* to the engine's members.
InMutation(t) ==
    threads[t].pc \in {"make", "match", "level", "aggregate", "remove", "index",
                       "queue", "statistics", "volume", "find", "cancel",
                       "remove_order", "unindex", "clear_bids", "clear_asks",
                       "clear_index", "clear_trades", "clear_volume", "return"}

\* The call of thread t run alone, as one step, on the committed engine.
Completed(t) ==
    LET op == threads[t].op
        o == orders[threads[t].order]
    IN  CASE op = "add_order"
               -> add_order(committed, o.price, o.quantity, o.side, o.type)
          [] op = "add_market_order"
               -> add_market_order(committed, o.quantity, o.side)
          [] op = "cancel_order" -> cancel_order(committed, threads[t].i)
          [] op = "clear" -> clear(committed)

ExclusiveBoundary ==
    \A t \in Threads :
        InMutation(t)
            => /\ mutex.exclusive = t
               /\ \A u \in Threads : mutex.shared[u] = 0
               /\ \A u \in Threads \ {t} : ~InMutation(u)

\* What the call of thread t returns is what the call c run alone returns.
SerialResult(t, c) ==
    /\ threads[t].op = "add_order"
           => /\ threads[t].order = c.ret
              /\ c.ret = committed.next_order_id
              /\ threads[t].trades = c.trades
    /\ threads[t].op = "add_market_order"
           => /\ threads[t].trades = c.ret
              /\ threads[t].order = committed.next_order_id
    /\ threads[t].op = "cancel_order" => threads[t].removed = c.ret

\* The call of thread t ends in this step, by its return or by an
\* exception that leaves it.
Ends(t) == InMutation(t) /\ threads'[t].pc = "idle"

SerialStep ==
    \A t \in Threads :
        Ends(t)
            => \E c \in {Completed(t)} :
                   /\ c.e = [bids |-> bids', asks |-> asks',
                             order_map |-> order_map', orders |-> orders',
                             next_order_id |-> next_order_id',
                             next_trade_id |-> next_trade_id',
                             total_trades |-> total_trades',
                             total_volume |-> total_volume']
                   /\ committed' = c.e
                   /\ c.err = "none" <=> threads[t].pc = "return"
                   /\ c.err = "none" => SerialResult(t, c)

\* C24: a thread between the first and the last access of a mutating call
\* owns the mutex exclusively, no thread has shared ownership and no other
\* thread is inside a mutating call; and each mutating call, when it ends,
\* has taken the engine from where the last one to end left it to where
\* the same call run alone takes it, returning as that one returns, with
\* the same result and, for an add, the next order id, and throwing as
\* that one throws: the calls of the threads are a serial execution in the
\* order in which they end.
C24_ExclusiveWriters ==
    /\ []ExclusiveBoundary
    /\ [][SerialStep]_vars

\* One thread is between the fills and the aggregate update of an add
\* while the other waits for the lock with a mutating call of its own.
C24_Witness ==
    \E t, u \in Threads :
        /\ threads[t].pc = "aggregate"
        /\ threads[u].pc = "lock"
        /\ mutex.exclusive = t

\* ------------------------------------------------------------------ C22
\* A read that holds the shared lock takes its value in this step.
LockedReadStep(t) ==
    /\ threads[t].pc \in {"read", "spread"}
    /\ threads'[t].pc = "read_end"

SnapshotStep ==
    \A t \in Threads :
        LockedReadStep(t)
            => /\ \A u \in Threads : ~InMutation(u)
               /\ Engine = committed
               /\ threads'[t].ret = ReadResult(threads[t].op, threads'[t].i, committed)

\* C22: every value that best_bid, best_ask, spread, a depth read or
\* total_orders returns is the value in the engine as the last completed
\* mutation left it, read while no mutation is in progress.
C22_ReaderSnapshot == [][SnapshotStep]_vars

\* A reader has read the spread of a two-sided book and still holds the
\* shared lock, while the other thread waits for the exclusive lock.
C22_Witness ==
    \E t, u \in Threads :
        /\ threads[t].pc = "read_end"
        /\ threads[t].op = "get_spread"
        /\ threads[t].ret.has_value
        /\ mutex.shared[t] = 1
        /\ threads[u].pc = "lock"

\* ------------------------------------------------------------------ C23
\* The engines a read may be serialised against: as the last completed
\* mutation left it, and as a mutation in progress will leave it.
SettledEngines ==
    {committed}
        \cup {Completed(w).e :
                 w \in {u \in Threads : /\ InMutation(u)
                                        /\ threads[u].pc \notin {"make", "find"}}}

StatisticReadStep(t) ==
    /\ threads[t].pc = "idle"
    /\ threads'[t].pc = "read_end"
    /\ threads'[t].op \in UnlockedReads

SettledStatisticStep ==
    \A t \in Threads :
        StatisticReadStep(t)
            => \E e \in SettledEngines :
                   threads'[t].ret = ReadResult(threads'[t].op, 0, e)

\* C23: every value that total_trades or total_volume returns is the
\* value before or after the mutating call that runs at the time of the
\* read, never a value that exists only in the middle of that call.
C23_SettledStatistics == [][SettledStatisticStep]_vars

\* ------------------------------------------------------------------ C28
\* A thread waits for a lock that cannot be granted in this state.
Blocked(t) ==
    \/ threads[t].pc = "lock" /\ ~can_lock(mutex)
    \/ /\ threads[t].pc \in {"lock_shared", "print"}
       /\ ~can_lock_shared(mutex, WriterWaiting)

\* A thread waits for the mutex that it has shared ownership of.
SelfWait(t) == Blocked(t) /\ mutex.shared[t] > 0

\* Some call has started and every started call waits for a lock; a lock
\* goes only when a started call moves, so none of them ever returns.
Deadlocked ==
    /\ \E t \in Threads : threads[t].pc # "idle"
    /\ \A t \in Threads : threads[t].pc # "idle" => Blocked(t)

\* C28: no thread waits for the mutex while it has ownership of it, and
\* in no state do all the started calls wait for a lock, whichever way the
\* mutex chooses between a waiting writer and a new reader.
C28_NoSelfWaitNoDeadlock ==
    /\ \A t \in Threads : ~SelfWait(t)
    /\ ~Deadlocked

\* ------------------------------------------------------------------ C31
\* The trade price is no worse than the limit of the order o.
WithinLimit(o, p) ==
    o.type = "LIMIT"
        => /\ o.side = "BUY" => double_le(p, o.price)
           /\ o.side = "SELL" => double_ge(p, o.price)

\* C31: every trade of a call is at a price at or below the limit of its
\* BUY order and at or above the limit of its SELL order, for the incoming
\* and for the resting order alike, whenever that order is a LIMIT order.
C31_LimitProtection ==
    \A k \in DOMAIN last.trades :
        /\ WithinLimit(order_of(last.trades[k].buy_order_id), last.trades[k].price)
        /\ WithinLimit(order_of(last.trades[k].sell_order_id), last.trades[k].price)

\* A BUY limit order took two levels: the first below its limit, the
\* second at its limit.
C31_Witness ==
    /\ Len(last.trades) = 2
    /\ order_of(last.order_id).type = "LIMIT"
    /\ order_of(last.order_id).side = "BUY"
    /\ double_lt(last.trades[1].price, order_of(last.order_id).price)
    /\ last.trades[2].price = order_of(last.order_id).price
\* ------------------------------------------------------------------ C32
StatusAgrees(o) ==
    /\ o.status = "NEW" => o.filled_qty = 0
    /\ o.status = "PARTIALLY_FILLED" => 0 < o.filled_qty /\ o.filled_qty < o.quantity
    /\ o.status = "FILLED" <=> o.filled_qty = o.quantity
    /\ o.status = "CANCELLED" => o.filled_qty < o.quantity

\* The order a call made and did not rest, if it made one.
Discarded ==
    IF last.order_id # 0 /\ last.order_id \in DOMAIN last.released
    THEN {last.released[last.order_id]}
    ELSE {}

\* C32: after every call each order on the book and each order the call
\* released has a status that agrees with its filled_qty: NEW with no
\* fill, PARTIALLY_FILLED with some and not all, FILLED exactly when all,
\* CANCELLED with less than all; and a MARKET order that is discarded with
\* quantity left is NEW or PARTIALLY_FILLED, not CANCELLED.
C32_StatusAgreesWithFills ==
    /\ \A o \in VisibleOrders : StatusAgrees(o)
    /\ \A o \in Discarded :
           (o.type = "MARKET" /\ o.filled_qty < o.quantity)
               => o.status \in {"NEW", "PARTIALLY_FILLED"}

\* A market order took all that rested, filled the resting order and was
\* discarded with quantity left.
C32_Witness ==
    /\ last.op = "add_market_order"
    /\ \E o \in Discarded : o.type = "MARKET" /\ o.status = "PARTIALLY_FILLED"
    /\ \E id \in DOMAIN last.released :
           id # last.order_id /\ last.released[id].status = "FILLED"
\* ------------------------------------------------------------------ C33
\* The orders that rest on the ladder `name` of the engine e.
RestingCount(e, name) ==
    Cardinality({id \in DOMAIN e.order_map : own_ladder(e.orders[id].side) = name})

\* The thread is in add_order or add_market_order, its order made.
InAdd(t) ==
    /\ threads[t].op \in {"add_order", "add_market_order"}
    /\ InMutation(t)
    /\ threads[t].pc # "make"

\* An iteration of the loop of process_matches_at_level makes a trade of
\* quantity 1 or more.
TradeStep ==
    \A t \in Threads :
        (threads[t].pc = "level" /\ LevelContinues(t) /\ threads'[t] # threads[t])
            => /\ threads'[t].pc = "aggregate"
               /\ threads'[t].trade.quantity >= 1

\* The trades of the call so far are no more than the orders that rested
\* on the opposite side when the call started.
TradesBounded ==
    \A t \in Threads :
        InAdd(t)
            => Len(threads[t].trades) + (IF threads[t].pc = "aggregate" THEN 1 ELSE 0)
                   <= RestingCount(committed,
                                   opposite_ladder(orders[threads[t].order].side))

\* C33: a call of add_order or add_market_order that has started returns;
\* each iteration of the loop over a level makes a trade of quantity 1 or
\* more; and the trades of one call are never more than the orders that
\* rested on the opposite side when the call started.
C33_MatchingTerminates ==
    /\ [][TradeStep]_vars
    /\ []TradesBounded
    /\ (InAdd(Walker) ~> threads[Walker].pc = "idle")

\* An add is at its return with two trades, one for each of the two orders
\* that rested on the opposite side when it started.
C33_Witness ==
    /\ threads[Walker].pc = "return"
    /\ InAdd(Walker)
    /\ Len(threads[Walker].trades) = 2
    /\ RestingCount(committed,
                    opposite_ladder(orders[threads[Walker].order].side)) = 2
====
